---- MODULE Spec2Model ----
(***************************************************************************)
(* Station-side connection state machine of src/src/netdev.c.              *)
(*                                                                         *)
(* One struct netdev is modelled together with the two netlink sockets it  *)
(* talks to (nl80211 generic netlink and route netlink), the kernel's      *)
(* MLME notifications and the calls of the upper layer and of the EAPoL    *)
(* engine.  Every C function of the connect path is an operator from a     *)
(* machine state m to a machine state; an action runs one handler to       *)
(* completion, as the single-threaded main loop does.                      *)
(***************************************************************************)
EXTENDS Integers, Sequences, FiniteSets, TLC

\* Bounds of the model.
MaxAttempts == 2
MaxDisconnectCalls == 2
MaxTransitions == 1

Attempts == 1..MaxAttempts

\* ------------------------------------------------------------------------
\* Values
\* ------------------------------------------------------------------------

\* Function pointers and user_data pointers are tagged with the call that
\* supplied them: k = "conn" for netdev_connect/netdev_connect_wsc number a,
\* "ft" for netdev_fast_transition, "disc" for netdev_disconnect.
NULL == [k |-> "null", a |-> 0]
Ptr(k, a) == [k |-> k, a |-> a]

\* struct handshake_state, as far as netdev.c reads it: a is the attempt the
\* object was created for (it stands for the authenticator address aa).
\* mde is the Mobility Domain element the handshake holds, as a sequence of
\* bytes (tag, length, MDID low, MDID high, FT capability), <<>> for none.
NoHandshake == [a |-> 0, is_rsn |-> FALSE, mde |-> <<>>, ptk_complete |-> FALSE]

\* The MDE of the BSS the station first connects to.
HomeMde == <<54, 3, 52, 18, 1>>

\* The arguments of a Connect call: own_ie present (RSN), MDE present,
\* and whether the call is netdev_connect_wsc.
ConnectArgs ==
    { [is_rsn |-> FALSE, mde |-> <<>>,    wsc |-> FALSE],
      [is_rsn |-> TRUE,  mde |-> HomeMde, wsc |-> FALSE],
      [is_rsn |-> FALSE, mde |-> <<>>,    wsc |-> TRUE] }

\* struct scan_bss of the target of a Fast BSS Transition: mde_present and
\* mde, the three bytes of the body of the MDE the BSS advertises.  The
\* targets are a BSS without MDE, one of the home mobility domain with the
\* same or with another FT capability byte, and one of another domain.
TargetBss ==
    { [mde_present |-> FALSE, mde |-> <<0, 0, 0>>],
      [mde_present |-> TRUE,  mde |-> <<52, 18, 1>>],
      [mde_present |-> TRUE,  mde |-> <<52, 18, 0>>],
      [mde_present |-> TRUE,  mde |-> <<53, 18, 1>>] }

\* The MDE the target BSS advertises in its Beacon and Probe Response: the
\* element header (tag 54, length 3) and the body struct scan_bss keeps.
AdvertisedMde(bss) == <<54, 3>> \o bss.mde

l_get_le16(bytes, i) == bytes[i] + 256 * bytes[i + 1]

\* What a connect callback does when it is invoked with an error: nothing,
\* or a re-entrant netdev_connect (src/src/netdev.c:351).
Reentry == {"none", "connect"}
ReentryArgs == [is_rsn |-> TRUE, mde |-> HomeMde, wsc |-> FALSE]

VARIABLES
    nd,         \* struct netdev
    genl,       \* nl80211 commands sent and not yet answered, oldest first
    rtnl,       \* RTM_SETLINK commands sent and not yet answered
    wire,       \* key commands issued since the last accepted Connect
    kern,       \* kernel side: its link and the notifications it owes
    cur,        \* number of Connect calls accepted so far
    alive,      \* FALSE once netdev_free has run
    crashed,    \* TRUE once the process has dereferenced a NULL pointer
    hist,       \* what the latest attempt has been told and has asked for
    last,       \* the upper layer's call in the last step and its return value
    out,        \* callbacks and events the last step delivered upward
    ap          \* the access point of src/src/ap.c, when the interface runs one

vars == <<nd, genl, rtnl, wire, kern, cur, alive, crashed, hist, last, out, ap>>

\* The interface is in station mode: there is no struct ap_state.
NoAp == [life |-> "none"]

NetdevInit ==
    [ connected |-> FALSE, operational |-> FALSE, in_ft |-> FALSE,
      event_filter |-> NULL, connect_cb |-> NULL, disconnect_cb |-> NULL,
      user_data |-> NULL, sm |-> "none", handshake |-> NoHandshake,
      pairwise_new_key_cmd_id |-> 0, pairwise_set_key_cmd_id |-> 0,
      group_new_key_cmd_id |-> 0, group_management_new_key_cmd_id |-> 0,
      connect_cmd_id |-> 0, disconnect_cmd_id |-> 0,
      result |-> "OK" ]

HistInit ==
    [ cb_count |-> 0, cb_result |-> "none", failure |-> {},
      disc_calls |-> 0, disc_first |-> "none", deauth_sent |-> 0,
      transitions |-> 0, target_mde |-> <<>> ]

\* The machine state a handler works on.
M == [ nd |-> nd, genl |-> genl, rtnl |-> rtnl, wire |-> wire, kern |-> kern,
       cur |-> cur, crashed |-> crashed, hist |-> hist,
       out |-> <<>>, ret |-> "none" ]

\* ------------------------------------------------------------------------
\* The nl80211 transport (l_genl_family_send / l_genl_family_cancel)
\* ------------------------------------------------------------------------

StoredIds(n) ==
    { n.pairwise_new_key_cmd_id, n.pairwise_set_key_cmd_id,
      n.group_new_key_cmd_id, n.group_management_new_key_cmd_id,
      n.connect_cmd_id, n.disconnect_cmd_id }

InFlightIds(q) == { q[i].id : i \in { j \in DOMAIN q : ~q[j].cancelled } }

\* A command id is unique among the outstanding commands and never 0.  The
\* smallest id that is neither outstanding nor still stored is taken.
NewId(m) ==
    LET used == InFlightIds(m.genl) \cup StoredIds(m.nd)
    IN  CHOOSE i \in 1..(Cardinality(used) + 1) :
            /\ i \notin used
            /\ \A j \in 1..(i - 1) : j \in used

\* The commands that install keys or authorize the port.
KeyCommands == {"NEW_KEY", "SET_KEY", "SET_STATION"}

\* cmd = [c, reason, a]: the nl80211 command, on behalf of attempt a.  The
\* send is taken to succeed (the -EIO returns of the callers are left out).
l_genl_family_send(m, cmd, cb) ==
    [ m EXCEPT !.genl = Append(@, [id |-> NewId(m), cmd |-> cmd, cb |-> cb,
                                   cancelled |-> FALSE]),
               !.wire = IF cmd.c \in KeyCommands THEN Append(@, cmd) ELSE @,
               !.hist.deauth_sent =
                    IF cmd.c = "DEAUTHENTICATE" /\ cmd.a = m.cur
                    THEN @ + 1 ELSE @ ]

\* The kernel has taken a command.  A CONNECT makes attempt cmd.a the link
\* the kernel works on and makes it owe one CONNECT notification; an FT
\* AUTHENTICATE makes it owe an AUTHENTICATE notification, an FT ASSOCIATE a
\* CONNECT notification.  Notifications travel on the same socket as the
\* answers, so they are about the link of the last CONNECT taken.
KernelAccept(k, cmd) ==
    IF cmd.c = "CONNECT"
    THEN [link |-> cmd.a, connect |-> TRUE, auth |-> FALSE]
    ELSE IF cmd.c = "AUTHENTICATE" /\ k.link = cmd.a
    THEN [ k EXCEPT !.auth = TRUE ]
    ELSE IF cmd.c = "ASSOCIATE" /\ k.link = cmd.a
    THEN [ k EXCEPT !.connect = TRUE ]
    ELSE k

\* The command was sent and stays on its way to the kernel; cancelling only
\* drops its callback.
l_genl_family_cancel(m, id) ==
    IF id = 0 THEN m
    ELSE [ m EXCEPT !.genl = [ i \in DOMAIN @ |->
                IF @[i].id = id /\ ~@[i].cancelled
                THEN [ @[i] EXCEPT !.cancelled = TRUE ] ELSE @[i] ] ]

Emit(m, rec) == [ m EXCEPT !.out = Append(@, rec) ]

Cmd(c, reason, a) == [c |-> c, reason |-> reason, a |-> a]


\* ------------------------------------------------------------------------
\* Calls into the upper layer
\* ------------------------------------------------------------------------

event_filter_call(m, filter, event, data) ==
    Emit(m, [t |-> "event", f |-> filter, v |-> event, data |-> data])

disconnect_cb_call(m, cb, r, data) ==
    Emit(m, [t |-> "disconnect_cb", f |-> cb, v |-> r, data |-> data])

\* ------------------------------------------------------------------------
\* netdev_connect_free, netdev_connect_common, netdev_connect(_wsc)
\* ------------------------------------------------------------------------

netdev_connect_free(m) ==
    LET n  == m.nd
        m1 == [ m EXCEPT !.nd.sm = "none",
                         !.nd.handshake = NoHandshake,
                         !.nd.operational = FALSE,
                         !.nd.connected = FALSE,
                         !.nd.connect_cb = NULL,
                         !.nd.event_filter = NULL,
                         !.nd.user_data = NULL,
                         !.nd.result = "OK",
                         !.nd.in_ft = FALSE ]
        m2 == [ l_genl_family_cancel(m1, n.pairwise_new_key_cmd_id)
                    EXCEPT !.nd.pairwise_new_key_cmd_id = 0 ]
        m3 == [ l_genl_family_cancel(m2, n.pairwise_set_key_cmd_id)
                    EXCEPT !.nd.pairwise_set_key_cmd_id = 0 ]
        m4 == [ l_genl_family_cancel(m3, n.group_new_key_cmd_id)
                    EXCEPT !.nd.group_new_key_cmd_id = 0 ]
        m5 == [ l_genl_family_cancel(m4, n.group_management_new_key_cmd_id)
                    EXCEPT !.nd.group_management_new_key_cmd_id = 0 ]
    IN  IF n.connect_cmd_id # 0
        THEN [ l_genl_family_cancel(m5, n.connect_cmd_id)
                    EXCEPT !.nd.connect_cmd_id = 0 ]
        ELSE IF n.disconnect_cmd_id # 0
        THEN [ l_genl_family_cancel(m5, n.disconnect_cmd_id)
                    EXCEPT !.nd.disconnect_cmd_id = 0 ]
        ELSE m5

\* sm is the eapol_sm the caller created ("none" when there is none).
netdev_connect_common(m, args, sm) ==
    LET a   == m.cur + 1
        id  == NewId(m)
        cmd == Cmd("CONNECT", "none", a)
        m1  == l_genl_family_send(m, cmd, "netdev_cmd_connect_cb")
    IN  [ m1 EXCEPT !.nd.connect_cmd_id = id,
                    !.nd.event_filter = Ptr("conn", a),
                    !.nd.connect_cb = Ptr("conn", a),
                    !.nd.user_data = Ptr("conn", a),
                    !.nd.connected = TRUE,
                    !.nd.handshake = [a |-> a, is_rsn |-> args.is_rsn,
                                      mde |-> args.mde, ptk_complete |-> FALSE],
                    !.nd.sm = sm,
                    !.cur = a,
                    !.wire = <<>>,
                    !.hist = HistInit,
                    !.ret = "0" ]

\* netdev_connect without its -EISCONN test.
netdev_connect_unchecked(m, args) ==
    netdev_connect_common(m, args, IF args.is_rsn THEN "new" ELSE "none")

netdev_connect(m, args) ==
    IF m.nd.connected
    THEN [ m EXCEPT !.ret = "EISCONN" ]
    ELSE netdev_connect_common(m, args, IF args.is_rsn THEN "new" ELSE "none")

netdev_connect_wsc(m, args) ==
    IF m.nd.connected
    THEN [ m EXCEPT !.ret = "EISCONN" ]
    ELSE netdev_connect_common(m, args, "new")

Connect_call(m, args) ==
    IF args.wsc THEN netdev_connect_wsc(m, args) ELSE netdev_connect(m, args)

\* connect_cb(netdev, result, user_data).  re is what the callee does.
connect_cb_call(m, cb, result, data, re) ==
    LET m1 == Emit(m, [t |-> "connect_cb", f |-> cb, v |-> result, data |-> data])
        m2 == IF cb.k = "conn"
              THEN [ m1 EXCEPT !.hist.cb_count = @ + 1,
                               !.hist.cb_result = result ]
              ELSE m1
    IN  IF re = "connect" /\ result # "OK" /\ m2.cur < MaxAttempts
        THEN [ netdev_connect(m2, ReentryArgs) EXCEPT !.ret = m.ret ]
        ELSE m2

netdev_connect_failed(m, re) ==
    LET n  == m.nd
        m1 == [ m EXCEPT !.nd.disconnect_cmd_id = 0 ]
        m2 == netdev_connect_free(m1)
    IN  IF n.connect_cb # NULL
        THEN connect_cb_call(m2, n.connect_cb, n.result, n.user_data, re)
        ELSE IF n.event_filter # NULL
        THEN event_filter_call(m2, n.event_filter, "DISCONNECT_BY_SME", n.user_data)
        ELSE m2


\* ------------------------------------------------------------------------
\* Deauthentication, failure paths, operstate
\* ------------------------------------------------------------------------

\* netdev_build_cmd_deauthenticate reads netdev->handshake->aa.
netdev_build_cmd_deauthenticate(m, reason_code) ==
    Cmd("DEAUTHENTICATE", reason_code, m.nd.handshake.a)

\* The four failure paths share this tail: build the DEAUTHENTICATE, send it
\* with netdev_connect_failed as its callback and store the id.
send_failure_deauth(m, reason_code) ==
    IF m.nd.handshake = NoHandshake
    THEN [ m EXCEPT !.crashed = TRUE ]
    ELSE LET id == NewId(m)
             m1 == l_genl_family_send(m,
                        netdev_build_cmd_deauthenticate(m, reason_code),
                        "netdev_connect_failed")
         IN  [ m1 EXCEPT !.nd.disconnect_cmd_id = id ]

RecordFailure(m, what) ==
    IF m.nd.handshake = NoHandshake THEN m
    ELSE [ m EXCEPT !.hist.failure = @ \cup {what} ]

netdev_cmd_deauthenticate_cb(m, ok) ==
    LET n  == m.nd
        m1 == [ m EXCEPT !.nd.disconnect_cmd_id = 0 ]
    IN  IF n.disconnect_cb = NULL
        THEN [ m1 EXCEPT !.nd.user_data = NULL ]
        ELSE disconnect_cb_call(
                [ m1 EXCEPT !.nd.user_data = NULL, !.nd.disconnect_cb = NULL ],
                n.disconnect_cb, ok, n.user_data)

netdev_set_linkmode_and_operstate(m) ==
    [ m EXCEPT !.rtnl = Append(@, [cb |-> "netdev_operstate_cb",
                                   a |-> m.nd.handshake.a]) ]

netdev_operstate_cb(m, success) ==
    IF ~m.nd.connected THEN m
    ELSE IF ~success
    THEN send_failure_deauth(
            RecordFailure([ m EXCEPT !.nd.result = "KEY_SETTING_FAILED" ],
                          "KEY_SETTING_FAILED"),
            "UNSPECIFIED")
    ELSE LET m1 == [ m EXCEPT !.nd.operational = TRUE ]
         IN  IF m1.nd.connect_cb # NULL
             THEN [ connect_cb_call(m1, m1.nd.connect_cb, "OK",
                                    m1.nd.user_data, "none")
                        EXCEPT !.nd.connect_cb = NULL ]
             ELSE m1

netdev_setting_keys_failed(m, reason_code) ==
    LET n  == m.nd
        m1 == [ l_genl_family_cancel(m, n.pairwise_new_key_cmd_id)
                    EXCEPT !.nd.pairwise_new_key_cmd_id = 0 ]
        m2 == [ l_genl_family_cancel(m1, n.pairwise_set_key_cmd_id)
                    EXCEPT !.nd.pairwise_set_key_cmd_id = 0 ]
        m3 == [ l_genl_family_cancel(m2, n.group_new_key_cmd_id)
                    EXCEPT !.nd.group_new_key_cmd_id = 0 ]
        m4 == [ l_genl_family_cancel(m3, n.group_management_new_key_cmd_id)
                    EXCEPT !.nd.group_management_new_key_cmd_id = 0 ]
        m5 == [ m4 EXCEPT !.nd.result = "KEY_SETTING_FAILED" ]
    IN  send_failure_deauth(RecordFailure(m5, "KEY_SETTING_FAILED"),
                            "UNSPECIFIED")

netdev_set_station_cb(m, ok) ==
    IF ~m.nd.connected THEN m
    ELSE IF ~ok THEN netdev_setting_keys_failed(m, "UNSPECIFIED")
    ELSE netdev_set_linkmode_and_operstate(m)

netdev_build_cmd_set_station(m) ==
    Cmd("SET_STATION", "AUTHORIZED", m.nd.handshake.a)

netdev_new_group_key_cb(m, ok) ==
    LET m1 == [ m EXCEPT !.nd.group_new_key_cmd_id = 0 ]
    IN  IF ~ok THEN netdev_setting_keys_failed(m1, "UNSPECIFIED")
        ELSE IF m1.nd.handshake = NoHandshake
        THEN [ m1 EXCEPT !.crashed = TRUE ]
        ELSE l_genl_family_send(m1, netdev_build_cmd_set_station(m1),
                                "netdev_set_station_cb")

netdev_new_group_management_key_cb(m, ok) ==
    LET m1 == [ m EXCEPT !.nd.group_management_new_key_cmd_id = 0 ]
    IN  IF ~ok THEN netdev_setting_keys_failed(m1, "UNSPECIFIED") ELSE m1

netdev_set_pairwise_key_cb(m, ok) ==
    LET m1 == [ m EXCEPT !.nd.pairwise_set_key_cmd_id = 0 ]
    IN  IF ok THEN m1 ELSE netdev_setting_keys_failed(m1, "UNSPECIFIED")

netdev_new_pairwise_key_cb(m, ok) ==
    LET m1 == [ m EXCEPT !.nd.pairwise_new_key_cmd_id = 0 ]
    IN  IF ok THEN m1 ELSE netdev_setting_keys_failed(m1, "UNSPECIFIED")

\* len_ok: crypto_cipher_key_len(cipher) = gtk_len.
netdev_set_gtk(m, cipher, len_ok) ==
    IF ~len_ok
    THEN netdev_setting_keys_failed(m, "INVALID_GROUP_CIPHER")
    ELSE IF cipher \notin {"CCMP", "TKIP"}
    THEN netdev_setting_keys_failed(m, "INVALID_GROUP_CIPHER")
    ELSE LET id == NewId(m)
             m1 == l_genl_family_send(m,
                        Cmd("NEW_KEY", "group", m.nd.handshake.a),
                        "netdev_new_group_key_cb")
         IN  [ m1 EXCEPT !.nd.group_new_key_cmd_id = id ]

netdev_set_igtk(m, cipher, len_ok) ==
    IF ~len_ok
    THEN netdev_setting_keys_failed(m, "INVALID_GROUP_CIPHER")
    ELSE IF cipher # "BIP"
    THEN netdev_setting_keys_failed(m, "INVALID_GROUP_CIPHER")
    ELSE LET id == NewId(m)
             m1 == l_genl_family_send(m,
                        Cmd("NEW_KEY", "group_management", m.nd.handshake.a),
                        "netdev_new_group_management_key_cb")
         IN  [ m1 EXCEPT !.nd.group_management_new_key_cmd_id = id ]

\* netdev_set_tk that sends SET_KEY before NEW_KEY.
netdev_set_tk_swapped(m, cipher) ==
    LET m1 == IF m.nd.event_filter # NULL
              THEN event_filter_call(m, m.nd.event_filter, "SETTING_KEYS",
                                     m.nd.user_data)
              ELSE m
    IN  IF cipher \notin {"CCMP", "TKIP"}
        THEN netdev_setting_keys_failed(m1, "INVALID_PAIRWISE_CIPHER")
        ELSE LET id1 == NewId(m1)
                 m2  == [ l_genl_family_send(m1,
                              Cmd("SET_KEY", "pairwise", m1.nd.handshake.a),
                              "netdev_set_pairwise_key_cb")
                            EXCEPT !.nd.pairwise_set_key_cmd_id = id1 ]
                 id2 == NewId(m2)
                 m3  == [ l_genl_family_send(m2,
                              Cmd("NEW_KEY", "pairwise", m2.nd.handshake.a),
                              "netdev_new_pairwise_key_cb")
                            EXCEPT !.nd.pairwise_new_key_cmd_id = id2 ]
             IN  m3

netdev_set_tk(m, cipher) ==
    LET m1 == IF m.nd.event_filter # NULL
              THEN event_filter_call(m, m.nd.event_filter, "SETTING_KEYS",
                                     m.nd.user_data)
              ELSE m
    IN  IF cipher \notin {"CCMP", "TKIP"}
        THEN netdev_setting_keys_failed(m1, "INVALID_PAIRWISE_CIPHER")
        ELSE LET id1 == NewId(m1)
                 m2  == [ l_genl_family_send(m1,
                              Cmd("NEW_KEY", "pairwise", m1.nd.handshake.a),
                              "netdev_new_pairwise_key_cb")
                            EXCEPT !.nd.pairwise_new_key_cmd_id = id1 ]
                 id2 == NewId(m2)
                 m3  == [ l_genl_family_send(m2,
                              Cmd("SET_KEY", "pairwise", m2.nd.handshake.a),
                              "netdev_set_pairwise_key_cb")
                            EXCEPT !.nd.pairwise_set_key_cmd_id = id2 ]
             IN  m3

netdev_handshake_failed(m, reason_code) ==
    LET m1 == [ m EXCEPT !.nd.sm = "none",
                         !.nd.result = "HANDSHAKE_FAILED" ]
    IN  send_failure_deauth(RecordFailure(m1, "HANDSHAKE_FAILED"), reason_code)


\* ------------------------------------------------------------------------
\* Kernel notifications
\* ------------------------------------------------------------------------

\* The IEs of an association response, as the checks of
\* netdev_handle_associate_resp_ies see them.  rsne "match" is an RSNE that
\* carries the expected PMKID and matches the advertised one; mde "same" is
\* byte-identical to the MDE sent; fte "valid" passes the checks of the mode
\* it arrives in and carries no key, "gtk"/"gtk_igtk" carry decodable keys,
\* "gtk_badigtk" carries a decodable GTK and an undecodable IGTK.
RespIEs ==
    { [rsne |-> "absent",   mde |-> "absent", fte |-> "absent"],
      [rsne |-> "absent",   mde |-> "same",   fte |-> "valid"],
      [rsne |-> "match",    mde |-> "same",   fte |-> "gtk"],
      [rsne |-> "match",    mde |-> "same",   fte |-> "gtk_igtk"],
      [rsne |-> "match",    mde |-> "same",   fte |-> "gtk_badigtk"],
      [rsne |-> "mismatch", mde |-> "same",   fte |-> "valid"],
      [rsne |-> "absent",   mde |-> "diff",   fte |-> "valid"],
      [rsne |-> "absent",   mde |-> "same",   fte |-> "invalid"] }

ConnectEventMsgs ==
    { [timed_out |-> TRUE,  status |-> 0, ies |-> ie] :
            ie \in { [rsne |-> "absent", mde |-> "absent", fte |-> "absent"] } }
    \cup { [timed_out |-> FALSE, status |-> 1, ies |-> ie] :
            ie \in { [rsne |-> "absent", mde |-> "absent", fte |-> "absent"] } }
    \cup { [timed_out |-> FALSE, status |-> 0, ies |-> ie] : ie \in RespIEs }

\* The RSNE test of netdev_handle_associate_resp_ies with every response
\* passing.
resp_rsne_any(is_rsn, rsne, transition) == TRUE

\* The RSNE test of netdev_handle_associate_resp_ies: in a transition in an
\* RSN the RSNE must be there, carry the PMK-R1-Name and match the advertised
\* one; in every other case there must be no RSNE.
resp_rsne_valid(is_rsn, rsne, transition) ==
    IF transition /\ is_rsn THEN rsne = "match" ELSE rsne = "absent"

\* Result of netdev_handle_associate_resp_ies: ok is its return value, m the
\* machine state after the key installations it performed on the way.
netdev_handle_associate_resp_ies(m, ies, transition) ==
    LET hs == m.nd.handshake
        sent_mde == hs.mde # <<>>
        is_rsn == hs.is_rsn
        fail == [ok |-> FALSE, m |-> m]
    IN  IF ~resp_rsne_valid(is_rsn, ies.rsne, transition) THEN fail
        ELSE IF sent_mde /\ ies.mde # "same" THEN fail
        ELSE IF sent_mde /\ is_rsn /\ ies.fte = "absent" THEN fail
        ELSE IF ~(sent_mde /\ is_rsn) /\ ies.fte # "absent" THEN fail
        ELSE IF ies.fte = "absent" THEN [ok |-> TRUE, m |-> m]
        ELSE IF ies.fte = "invalid" THEN fail
        ELSE IF ~transition THEN [ok |-> TRUE, m |-> m]
        ELSE IF ies.fte = "valid" THEN [ok |-> TRUE, m |-> m]
        ELSE LET m1 == netdev_set_gtk(m, "CCMP", TRUE)
             IN  IF ies.fte = "gtk" THEN [ok |-> TRUE, m |-> m1]
                 ELSE IF ies.fte = "gtk_badigtk" THEN [ok |-> FALSE, m |-> m1]
                 ELSE [ok |-> TRUE, m |-> netdev_set_igtk(m1, "BIP", TRUE)]

\* handshake_state_install_ptk that leaves the PTK to a later handshake.
handshake_state_install_ptk_deferred(m) == m

\* handshake_state_install_ptk: marks the PTK complete and calls the
\* install_tk hook, which netdev_init sets to netdev_set_tk.
handshake_state_install_ptk(m) ==
    netdev_set_tk([ m EXCEPT !.nd.handshake.ptk_complete = TRUE ], "CCMP")

eapol_start(m) ==
    IF m.nd.sm # "none" THEN [ m EXCEPT !.nd.sm = "started" ] ELSE m

eapol_register(m) ==
    IF m.nd.sm # "none" THEN [ m EXCEPT !.nd.sm = "registered" ] ELSE m

\* Called with a non-NULL netdev->handshake (the caller settles the other case).
netdev_connect_event(m, msg, re) ==
    LET is_rsn == m.nd.handshake.is_rsn
        error  == netdev_connect_failed(
                      [ m EXCEPT !.nd.result = "ASSOCIATION_FAILED" ], re)
    IN  IF ~m.nd.connected THEN m
        ELSE IF msg.timed_out THEN error
        ELSE IF msg.status # 0 THEN error
        ELSE LET r == netdev_handle_associate_resp_ies(m, msg.ies, m.nd.in_ft)
             IN  IF ~r.ok
                 THEN netdev_connect_failed(
                        [ r.m EXCEPT !.nd.result = "ASSOCIATION_FAILED" ], re)
                 ELSE LET m1 == eapol_start(r.m)
                      IN  IF m1.nd.in_ft
                          THEN LET m2 == [ m1 EXCEPT !.nd.in_ft = FALSE,
                                                     !.nd.operational = TRUE ]
                                   m3 == IF is_rsn
                                         THEN handshake_state_install_ptk(m2)
                                         ELSE m2
                               IN  IF m3.nd.connect_cb # NULL
                                   THEN [ connect_cb_call(m3, m3.nd.connect_cb,
                                              "OK", m3.nd.user_data, "none")
                                            EXCEPT !.nd.connect_cb = NULL ]
                                   ELSE m3
                          ELSE IF is_rsn
                          THEN IF m1.nd.event_filter # NULL
                               THEN event_filter_call(m1, m1.nd.event_filter,
                                        "4WAY_HANDSHAKE", m1.nd.user_data)
                               ELSE m1
                          ELSE netdev_set_linkmode_and_operstate(m1)

netdev_disconnect_event(m, disconnect_by_ap) ==
    IF ~m.nd.connected \/ m.nd.disconnect_cmd_id > 0 \/ m.nd.in_ft THEN m
    ELSE LET event_filter == m.nd.event_filter
             event_data   == m.nd.user_data
             m1 == netdev_connect_free(m)
         IN  IF disconnect_by_ap /\ event_filter # NULL
             THEN event_filter_call(m1, event_filter, "DISCONNECT_BY_AP",
                                    event_data)
             ELSE m1

netdev_lost_beacon(m) ==
    IF ~m.nd.connected THEN m
    ELSE LET m1 == IF m.nd.event_filter # NULL
                   THEN event_filter_call(m, m.nd.event_filter, "LOST_BEACON",
                                          m.nd.user_data)
                   ELSE m
         IN  netdev_connect_free(m1)

netdev_cmd_connect_cb(m, ok, re) ==
    LET m1 == [ m EXCEPT !.nd.connect_cmd_id = 0 ]
    IN  IF ok
        THEN LET m2 == IF m1.nd.event_filter # NULL
                       THEN event_filter_call(m1, m1.nd.event_filter,
                                "ASSOCIATING", m1.nd.user_data)
                       ELSE m1
             IN  eapol_register(m2)
        ELSE netdev_connect_failed(
                [ m1 EXCEPT !.nd.result = "ASSOCIATION_FAILED" ], re)


\* ------------------------------------------------------------------------
\* netdev_disconnect, Fast BSS Transition, netdev_free
\* ------------------------------------------------------------------------

netdev_disconnect(m, re) ==
    LET a0 == m.cur IN
    IF ~m.nd.connected THEN [ m EXCEPT !.ret = "ENOTCONN" ]
    ELSE IF m.nd.disconnect_cmd_id # 0 THEN [ m EXCEPT !.ret = "EINPROGRESS" ]
    ELSE LET deauthenticate == netdev_build_cmd_deauthenticate(m, "LEAVING")
             m1 == IF ~m.nd.operational
                   THEN netdev_connect_failed(
                            [ m EXCEPT !.nd.result = "ABORTED" ], re)
                   ELSE netdev_connect_free(m)
             id == NewId(m1)
             m2 == l_genl_family_send(m1, deauthenticate,
                                      "netdev_cmd_deauthenticate_cb")
         IN  [ m2 EXCEPT !.nd.disconnect_cmd_id = id,
                         !.nd.disconnect_cb = Ptr("disc", a0),
                         !.nd.user_data = Ptr("disc", a0),
                         !.ret = "0" ]

\* The IEs of the FT Authenticate Request: the MDE is rebuilt from the
\* three bytes of the target's struct scan_bss.
netdev_build_cmd_ft_authenticate(m, bss) ==
    [c |-> "AUTHENTICATE", reason |-> "ft", a |-> m.nd.handshake.a,
     mde |-> <<54, 3>> \o bss.mde]

\* netdev_build_cmd_ft_reassociate with the MDE of the first association.
netdev_build_cmd_ft_reassociate_home(m) ==
    [c |-> "ASSOCIATE", reason |-> "ft", a |-> m.nd.handshake.a,
     mde |-> HomeMde]

\* The IEs of the FT Reassociation Request: hs->mde is passed as it is.
netdev_build_cmd_ft_reassociate(m) ==
    [c |-> "ASSOCIATE", reason |-> "ft", a |-> m.nd.handshake.a,
     mde |-> m.nd.handshake.mde]

netdev_fast_transition(m, target_bss) ==
    IF ~m.nd.operational THEN [ m EXCEPT !.ret = "ENOTCONN" ]
    ELSE IF \/ m.nd.handshake.mde = <<>>
            \/ ~target_bss.mde_present
            \/ l_get_le16(m.nd.handshake.mde, 3) # l_get_le16(target_bss.mde, 1)
    THEN [ m EXCEPT !.ret = "EINVAL" ]
    ELSE LET a  == m.nd.handshake.a
             id == NewId(m)
             m1 == [ l_genl_family_send(m,
                          netdev_build_cmd_ft_authenticate(m, target_bss),
                          "netdev_cmd_authenticate_ft_cb")
                        EXCEPT !.nd.connect_cmd_id = id,
                               !.nd.handshake.mde =
                                   SubSeq(@, 1, 2) \o target_bss.mde,
                               !.hist.target_mde = AdvertisedMde(target_bss) ]
             m2 == [ m1 EXCEPT !.nd.sm = IF @ # "none" THEN "new" ELSE @,
                               !.nd.operational = FALSE,
                               !.nd.in_ft = TRUE,
                               !.nd.connect_cb = Ptr("ft", a),
                               !.hist.transitions = @ + 1 ]
             m3 == [ l_genl_family_cancel(m2, m2.nd.group_new_key_cmd_id)
                        EXCEPT !.nd.group_new_key_cmd_id = 0 ]
             m4 == [ l_genl_family_cancel(m3,
                            m3.nd.group_management_new_key_cmd_id)
                        EXCEPT !.nd.group_management_new_key_cmd_id = 0 ]
         IN  [ m4 EXCEPT !.ret = "0" ]

netdev_cmd_authenticate_ft_cb(m, ok, re) ==
    LET m1 == [ m EXCEPT !.nd.connect_cmd_id = 0 ]
    IN  IF ok THEN m1
        ELSE netdev_connect_failed(
                [ m1 EXCEPT !.nd.result = "AUTHENTICATION_FAILED" ], re)

netdev_cmd_ft_reassociate_cb(m, ok) ==
    LET m1 == [ m EXCEPT !.nd.connect_cmd_id = 0 ]
    IN  IF ok THEN m1
        ELSE send_failure_deauth(
                [ m1 EXCEPT !.nd.result = "ASSOCIATION_FAILED" ], "UNSPECIFIED")

\* The AUTHENTICATE notification, by the branch its contents select:
\* "timed_out", "no_frame", "bad_frame", "status" end in auth_error,
\* "no_ies", "bad_ies" in ft_error, "ok" passes every check.
AuthEventMsgs == {"timed_out", "status", "bad_ies", "ok"}

\* Called with a non-NULL netdev->handshake (the caller settles the other case).
netdev_authenticate_event(m, msg, re) ==
    IF ~m.nd.in_ft THEN m
    ELSE IF msg \in {"timed_out", "no_frame", "bad_frame", "status"}
    THEN netdev_connect_failed(
            [ m EXCEPT !.nd.result = "AUTHENTICATION_FAILED" ], re)
    ELSE IF msg \in {"no_ies", "bad_ies"}
    THEN send_failure_deauth(
            [ m EXCEPT !.nd.result = "AUTHENTICATION_FAILED" ], "UNSPECIFIED")
    ELSE LET id == NewId(m)
             m1 == [ l_genl_family_send(m,
                          netdev_build_cmd_ft_reassociate(m),
                          "netdev_cmd_ft_reassociate_cb")
                        EXCEPT !.nd.connect_cmd_id = id ]
         IN  eapol_register(m1)

netdev_free(m) ==
    IF m.nd.connected THEN netdev_connect_free(m)
    ELSE IF m.nd.disconnect_cmd_id # 0
    THEN LET m1 == [ l_genl_family_cancel(m, m.nd.disconnect_cmd_id)
                        EXCEPT !.nd.disconnect_cmd_id = 0 ]
             m2 == IF m1.nd.disconnect_cb # NULL
                   THEN disconnect_cb_call(m1, m1.nd.disconnect_cb, TRUE,
                                           m1.nd.user_data)
                   ELSE m1
         IN  [ m2 EXCEPT !.nd.disconnect_cb = NULL, !.nd.user_data = NULL ]
    ELSE m

\* ------------------------------------------------------------------------
\* The EAPoL engine, as far as it calls into netdev.c
\* ------------------------------------------------------------------------

\* Message 3 of 4 accepted: the PTK is installed, then the GTK and, when the
\* key data carries one, the IGTK.
eapol_handle_ptk_3_of_4(m, igtk) ==
    LET m1 == handshake_state_install_ptk(m)
        m2 == netdev_set_gtk(m1, "CCMP", TRUE)
    IN  IF igtk THEN netdev_set_igtk(m2, "BIP", TRUE) ELSE m2

\* A retry cap, MIC failure or IE mismatch: the engine drops the state
\* machine and calls the deauthenticate hook, netdev_handshake_failed.
eapol_handshake_failed(m) ==
    netdev_handshake_failed(m, "UNSPECIFIED")


\* ------------------------------------------------------------------------
\* Actions
\* ------------------------------------------------------------------------

Running == alive /\ ~crashed

Step(m, op, al) ==
    /\ nd' = m.nd
    /\ genl' = m.genl
    /\ rtnl' = m.rtnl
    /\ wire' = m.wire
    /\ kern' = m.kern
    /\ cur' = m.cur
    /\ crashed' = m.crashed
    /\ hist' = m.hist
    /\ out' = m.out
    /\ alive' = al
    /\ last' = [op |-> op, ret |-> m.ret]
    /\ UNCHANGED ap

\* How many DEAUTHENTICATE commands with reason LEAVING a step appended to
\* the queue q0, giving q1.
LeavingSent(q0, q1) ==
    Cardinality({ i \in DOMAIN q1 : /\ i > Len(q0)
                                    /\ q1[i].cmd.c = "DEAUTHENTICATE"
                                    /\ q1[i].cmd.reason = "LEAVING" })

\* netdev_connect / netdev_connect_wsc called by the upper layer.
Connect(args) ==
    /\ Running
    /\ nd.connected \/ cur < MaxAttempts
    /\ Step(Connect_call(M, args), "netdev_connect", alive)

\* netdev_disconnect called by the upper layer, for the latest attempt.
Disconnect(re) ==
    /\ Running
    /\ cur > 0
    /\ hist.disc_calls < MaxDisconnectCalls
    /\ LET m1 == netdev_disconnect(M, re)
           m2 == IF m1.cur # cur THEN m1
                 ELSE [ m1 EXCEPT !.hist.disc_calls = @ + 1,
                                  !.hist.disc_first =
                                      IF @ = "none" THEN m1.ret ELSE @ ]
       IN  Step(m2, "netdev_disconnect", alive)

\* netdev_fast_transition called by the upper layer.
FastTransition(target_bss) ==
    /\ Running
    /\ cur > 0
    /\ hist.transitions < MaxTransitions
    /\ Step(netdev_fast_transition(M, target_bss), "netdev_fast_transition",
            alive)

\* The answer to the oldest outstanding nl80211 command arrives.  The
\* callback of a cancelled command is not invoked.  A connect callback that
\* is the handler's last statement re-enters nothing the next Connect step
\* would not do, so re-entry is drawn only where code follows the callback.
GenlReply(ok) ==
    /\ Running
    /\ genl # <<>>
    /\ LET e  == Head(genl)
           m0 == [ M EXCEPT !.genl = Tail(@),
                            !.kern = IF ok THEN KernelAccept(@, e.cmd) ELSE @ ]
           m1 == CASE e.cancelled -> m0
                   [] e.cb = "netdev_cmd_connect_cb" ->
                        netdev_cmd_connect_cb(m0, ok, "none")
                   [] e.cb = "netdev_cmd_deauthenticate_cb" ->
                        netdev_cmd_deauthenticate_cb(m0, ok)
                   [] e.cb = "netdev_connect_failed" ->
                        netdev_connect_failed(m0, "none")
                   [] e.cb = "netdev_new_pairwise_key_cb" ->
                        netdev_new_pairwise_key_cb(m0, ok)
                   [] e.cb = "netdev_set_pairwise_key_cb" ->
                        netdev_set_pairwise_key_cb(m0, ok)
                   [] e.cb = "netdev_new_group_key_cb" ->
                        netdev_new_group_key_cb(m0, ok)
                   [] e.cb = "netdev_new_group_management_key_cb" ->
                        netdev_new_group_management_key_cb(m0, ok)
                   [] e.cb = "netdev_set_station_cb" ->
                        netdev_set_station_cb(m0, ok)
                   [] e.cb = "netdev_cmd_authenticate_ft_cb" ->
                        netdev_cmd_authenticate_ft_cb(m0, ok, "none")
                   [] e.cb = "netdev_cmd_ft_reassociate_cb" ->
                        netdev_cmd_ft_reassociate_cb(m0, ok)
       IN  Step(m1, "none", alive)

\* The answer to the oldest outstanding RTM_SETLINK arrives.
RtnlReply(success) ==
    /\ Running
    /\ rtnl # <<>>
    /\ LET e  == Head(rtnl)
           m0 == [ M EXCEPT !.rtnl = Tail(@) ]
       IN  Step(netdev_operstate_cb(m0, success), "none", alive)

\* NL80211_CMD_CONNECT notification.  netdev_connect_event reads
\* netdev->handshake->own_ie before it tests netdev->connected: with no
\* handshake that is a NULL dereference, which either kills the process or,
\* when the load is deferred past the test, goes unnoticed.
ConnectEvent(msg, ub) ==
    /\ Running
    /\ kern.connect
    /\ LET m0 == [ M EXCEPT !.kern.connect = FALSE ] IN
       IF nd.handshake = NoHandshake /\ ub = "crash"
       THEN Step([ m0 EXCEPT !.crashed = TRUE ], "none", alive)
       ELSE /\ nd.handshake = NoHandshake \/ ub = "benign"
            /\ Step(netdev_connect_event(m0, msg, "none"),
                    "none", alive)

\* NL80211_CMD_AUTHENTICATE notification; netdev->handshake is read before
\* any test, as in ConnectEvent.
AuthenticateEvent(msg, ub) ==
    /\ Running
    /\ kern.auth
    /\ LET m0 == [ M EXCEPT !.kern.auth = FALSE ] IN
       IF nd.handshake = NoHandshake /\ ub = "crash"
       THEN Step([ m0 EXCEPT !.crashed = TRUE ], "none", alive)
       ELSE /\ nd.handshake = NoHandshake \/ ub = "benign"
            /\ Step(netdev_authenticate_event(m0, msg, "none"),
                    "none", alive)

\* NL80211_CMD_DISCONNECT notification about the kernel's link.
DisconnectEvent(by_ap) ==
    /\ Running
    /\ kern.link # 0
    /\ Step(netdev_disconnect_event(M, by_ap), "none", alive)

\* NL80211_CMD_NOTIFY_CQM with a beacon-loss event about the kernel's link.
BeaconLoss ==
    /\ Running
    /\ kern.link # 0
    /\ Step(netdev_lost_beacon(M), "none", alive)

\* The EAPoL engine accepts message 3 of the 4-Way Handshake.
EapolPtk3of4(igtk) ==
    /\ Running
    /\ nd.sm = "started"
    /\ nd.handshake.is_rsn
    /\ ~nd.handshake.ptk_complete
    /\ Step(eapol_handle_ptk_3_of_4(M, igtk), "none", alive)

\* The EAPoL engine gives up on the handshake.
EapolFailed ==
    /\ Running
    /\ nd.sm = "started"
    /\ ~nd.handshake.ptk_complete
    /\ Step(eapol_handshake_failed(M), "none", alive)

\* NL80211_CMD_SET_REKEY_OFFLOAD notification about the kernel's link.  With
\* a well-formed replay counter (has_ctr) netdev_rekey_offload_event reads
\* netdev->handshake->aa and hands the counter to the EAPoL engine, without
\* any test of netdev->connected: with no handshake that is a NULL
\* dereference, which kills the process or goes unnoticed.
RekeyOffloadEvent(has_ctr, ub) ==
    /\ Running
    /\ kern.link # 0
    /\ has_ctr \/ ub = "benign"
    /\ nd.handshake # NoHandshake => ub = "benign"
    /\ Step([ M EXCEPT !.crashed =
                    (has_ctr /\ nd.handshake = NoHandshake /\ ub = "crash") ],
            "none", alive)

\* RTM_DELLINK: the interface is gone.
DelLink ==
    /\ Running
    /\ cur > 0
    /\ Step(netdev_free(M), "none", FALSE)

\* A command that netdev_free left outstanding is answered: its callback
\* runs with the freed struct netdev as user data.
FreedReply(ub) ==
    /\ ~alive
    /\ ~crashed
    /\ genl # <<>>
    /\ LET e == Head(genl) IN
       Step([ M EXCEPT !.genl = Tail(@),
                       !.crashed = (~e.cancelled /\ ub = "crash") ],
            "none", alive)

FreedRtnlReply(ub) ==
    /\ ~alive
    /\ ~crashed
    /\ rtnl # <<>>
    /\ Step([ M EXCEPT !.rtnl = Tail(@), !.crashed = (ub = "crash") ],
            "none", alive)

StaInit ==
    /\ nd = NetdevInit
    /\ genl = <<>>
    /\ rtnl = <<>>
    /\ wire = <<>>
    /\ kern = [link |-> 0, connect |-> FALSE, auth |-> FALSE]
    /\ cur = 0
    /\ alive = TRUE
    /\ crashed = FALSE
    /\ hist = HistInit
    /\ last = [op |-> "none", ret |-> "none"]
    /\ out = <<>>

Init ==
    /\ StaInit
    /\ ap = NoAp

UB == {"crash", "benign"}

Next ==
    \/ \E args \in ConnectArgs : Connect(args)
    \/ \E re \in Reentry : Disconnect(re)
    \/ \E t \in TargetBss : FastTransition(t)
    \/ \E ok \in BOOLEAN : GenlReply(ok)
    \/ \E ok \in BOOLEAN : RtnlReply(ok)
    \/ \E msg \in ConnectEventMsgs, ub \in UB : ConnectEvent(msg, ub)
    \/ \E msg \in AuthEventMsgs, ub \in UB : AuthenticateEvent(msg, ub)
    \/ \E by_ap \in BOOLEAN : DisconnectEvent(by_ap)
    \/ BeaconLoss
    \/ \E has_ctr \in BOOLEAN, ub \in UB : RekeyOffloadEvent(has_ctr, ub)
    \/ \E igtk \in BOOLEAN : EapolPtk3of4(igtk)
    \/ EapolFailed
    \/ DelLink
    \/ \E ub \in UB : FreedReply(ub)
    \/ \E ub \in UB : FreedRtnlReply(ub)

Spec == Init /\ [][Next]_vars

\* ------------------------------------------------------------------------
\* The access point of src/src/ap.c
\* ------------------------------------------------------------------------
\* One struct ap_state is modelled with the generic netlink handle it owns,
\* the management frames it received, the frame exchanges it started and
\* the events it hands to its owner.  The variable ap holds the struct; the
\* station-side variables stay as they are while an access point runs.

\* Number of client addresses; the addresses are 1..MaxStations.
MaxStations == 2

\* Number of (re)association requests that draw a new AID one at a time.
MaxAidDraws == 2

\* Number of runs of refused-and-repeated association requests.
MaxRuns == 1

Macs == 1 .. MaxStations

\* A run of n association requests of one station whose responses are never
\* acknowledged: n is chosen so that the counter comes close to the largest
\* AID of the standard and to the largest value of a uint16_t.
RunLengths == {2007, 65535}

\* The AuthorizedMACs setting of the profile: absent, or a list.
AuthorizedMacsSettings == { {}, {1} }

\* struct sta_state of an address that has no entry in ap->sta_states.
NoSta ==
    [known |-> FALSE, associated |-> FALSE, rsna |-> FALSE, aid |-> 0,
     assoc_resp_cmd_id |-> 0, assoc_rsne |-> FALSE, hs |-> FALSE]

\* No frame was sent by the handler that ran last.
NoResp == [type |-> "none", to |-> 0, status |-> "none", aid |-> 0,
           selected_registrar |-> FALSE]

\* struct ap_state after ap_start returned it: START_AP is outstanding.
ap_start(macs) ==
    [life |-> "running", started |-> FALSE, start_stop_cmd_id |-> 1,
     authorized_macs |-> macs, last_aid |-> 0,
     sta_states |-> [x \in Macs |-> NoSta],
     wsc_pbc_timeout |-> FALSE, wsc_dpid |-> "none", wsc_pbc_probes |-> <<>>,
     nl80211 |-> << [id |-> 1, c |-> "START_AP", mac |-> 0,
                     stale |-> FALSE] >>,
     set_beacon |-> 0, xchg |-> <<>>, gtk_set |-> FALSE, stopped_func |-> FALSE,
     crashed |-> FALSE, events |-> <<>>, resp |-> NoResp,
     stopped_calls |-> 0, freed |-> FALSE, released |-> 0,
     rtnl_add_cmd |-> 0, owner_done |-> FALSE,
     draws |-> 0, runs |-> 0]

\* struct ap_state after ap_start returned it with wait_on_address set: the
\* interface address is being added and START_AP waits for the reply.
ap_start_wait(macs) ==
    [ap_start(macs) EXCEPT !.start_stop_cmd_id = 0, !.nl80211 = <<>>,
                           !.rtnl_add_cmd = 1]

\* The handler op starts: nothing was sent or reported by it yet.
ApBegin(a, op) == [a EXCEPT !.events = <<>>, !.resp = NoResp]

\* ap->ops->handle_event(ev, ...) for the station mac (0: no station).
ap_handle_event(a, ev, mac) ==
    [a EXCEPT !.events = Append(@, [ev |-> ev, mac |-> mac])]

\* The commands whose callback does no more than log an error: those given
\* ap_set_sta_cb, ap_del_key_cb and ap_gtk_op_cb.  Their replies change
\* nothing, so the queue of the handle does not list them.
LogOnly == {"SET_STATION_UNAUTH", "DEL_KEY", "NEW_KEY", "SET_KEY"}

\* l_genl_family_send(ap->nl80211, ...): the command c about station mac is
\* queued; its reply runs the callback that was given with it.  The id of
\* the command is 1 where the caller keeps it (START_AP and STOP_AP in
\* ap->start_stop_cmd_id, of which one at most is outstanding) and 0 where
\* the caller drops it.  SET_BEACON commands, whose callback only logs too,
\* are counted.
ap_genl_send(a, c, mac) ==
    IF c \in LogOnly THEN a
    ELSE IF c = "SET_BEACON" THEN [a EXCEPT !.set_beacon = @ + 1]
    ELSE [a EXCEPT !.nl80211 =
              Append(@, [id |-> IF c \in {"START_AP", "STOP_AP"} THEN 1 ELSE 0,
                         c |-> c, mac |-> mac, stale |-> FALSE])]

\* l_genl_family_cancel(ap->nl80211, id): the command is dropped, its
\* callback will not run.
ap_genl_cancel(a, id) ==
    [a EXCEPT !.nl80211 = SelectSeq(@, LAMBDA e : e.id = 0 \/ e.id # id)]

\* l_genl_family_cancel called with the id of a frame exchange: the id is
\* not one of this handle's, so the call drops the command of the handle
\* that happens to have the same number: the hit-th one of the queue, a
\* SET_BEACON (hit = -1), or none (hit = 0).
ap_genl_cancel_foreign(a, hit) ==
    IF hit \in DOMAIN a.nl80211
    THEN [a EXCEPT !.nl80211 =
              SubSeq(@, 1, hit - 1) \o SubSeq(@, hit + 1, Len(@))]
    ELSE IF hit = -1 /\ a.set_beacon > 0
    THEN [a EXCEPT !.set_beacon = @ - 1]
    ELSE a

\* ap_stop_handshake: the EAPoL state machine and the handshake are freed.
ap_stop_handshake(a, mac) == [a EXCEPT !.sta_states[mac].hs = FALSE]

\* ap_sta_free: the struct is freed.  Its frame exchange is not stopped, and
\* that exchange and the station's NEW_STATION or SET_STATION command keep
\* a pointer to the freed struct (stale).
ap_sta_free(a, mac, hit) ==
    LET sta == a.sta_states[mac]
        a1 == IF sta.assoc_resp_cmd_id # 0
              THEN ap_genl_cancel_foreign(a, hit) ELSE a
        q == SelectSeq(a1.nl80211, LAMBDA e : ~(e.c = "GET_KEY" /\ e.mac = mac))
    IN  [a1 EXCEPT !.sta_states[mac] = NoSta,
                   !.nl80211 = [i \in DOMAIN q |->
                                   [q[i] EXCEPT !.stale = @ \/ q[i].mac = mac]],
                   !.xchg = [i \in DOMAIN @ |->
                                [@[i] EXCEPT !.stale = @ \/ a.xchg[i].mac = mac]]]

\* ap_del_station: the station leaves State 3; STATION_REMOVED is reported
\* only if the station had completed its handshake.
ap_del_station(a, mac) ==
    LET sta == a.sta_states[mac]
        a1 == [a EXCEPT !.sta_states[mac].associated = FALSE,
                        !.sta_states[mac].rsna = FALSE,
                        !.sta_states[mac].hs = FALSE,
                        !.nl80211 = SelectSeq(@, LAMBDA e :
                                        ~(e.c = "GET_KEY" /\ e.mac = mac))]
    IN  IF sta.rsna THEN ap_handle_event(a1, "STATION_REMOVED", mac) ELSE a1

\* ap_remove_sta: the entry leaves ap->sta_states and is freed.
ap_remove_sta(a, mac, hit) == ap_sta_free(a, mac, hit)

\* ap_new_rsna: the 4-Way Handshake of the station is complete.
ap_new_rsna(a, mac) ==
    ap_handle_event([a EXCEPT !.sta_states[mac].rsna = TRUE],
                    "STATION_ADDED", mac)

\* ap_drop_rsna that takes the station's association with its keys.
ap_drop_rsna_disassoc(a, mac) ==
    LET a1 == [a EXCEPT !.sta_states[mac].rsna = FALSE,
                        !.sta_states[mac].associated = FALSE]
        a2 == ap_genl_send(a1, "SET_STATION_UNAUTH", mac)
        a3 == ap_genl_send(a2, "DEL_KEY", mac)
    IN  ap_handle_event(ap_stop_handshake(a3, mac), "STATION_REMOVED", mac)

\* ap_drop_rsna: the station loses its keys and goes back to State 3.
ap_drop_rsna(a, mac) ==
    LET a1 == [a EXCEPT !.sta_states[mac].rsna = FALSE]
        a2 == ap_genl_send(a1, "SET_STATION_UNAUTH", mac)
        a3 == ap_genl_send(a2, "DEL_KEY", mac)
    IN  ap_handle_event(ap_stop_handshake(a3, mac), "STATION_REMOVED", mac)

\* ap_update_beacon: a SET_BEACON with the current elements is sent; the
\* reply to an earlier one is not waited for.
ap_update_beacon(a) ==
    IF ~a.started THEN a ELSE ap_genl_send(a, "SET_BEACON", 0)

\* ap_wsc_exit_pbc: the walk-time timer is removed, which runs
\* ap_wsc_pbc_timeout_destroy, and the beacon stops advertising PBC.
ap_wsc_exit_pbc(a) ==
    IF ~a.wsc_pbc_timeout THEN a
    ELSE LET a1 == [a EXCEPT !.wsc_pbc_timeout = FALSE, !.wsc_dpid = "none"]
         IN  ap_handle_event(ap_update_beacon(a1), "PBC_MODE_EXIT", 0)

\* ap_reset: watches are removed, the start or stop command is cancelled and
\* the stations and probe records are freed.  The walk-time timer stays.
\* The station list, the rate set, the probe records and own_ip are released
\* and their pointers kept as they are, own_ip after ip_pool_put: released
\* counts how often that was done to this struct.
ap_reset(a, hit) ==
    LET lost == \E x \in Macs : a.sta_states[x].known
                                 /\ a.sta_states[x].assoc_resp_cmd_id # 0
        a1 == IF a.start_stop_cmd_id # 0
              THEN ap_genl_cancel(a, a.start_stop_cmd_id) ELSE a
        a2 == IF lost THEN ap_genl_cancel_foreign(a1, hit) ELSE a1
        q == SelectSeq(a2.nl80211, LAMBDA e : e.c # "GET_KEY")
    IN  [a2 EXCEPT !.sta_states = [x \in Macs |-> NoSta],
                   !.nl80211 = [i \in DOMAIN q |->
                                   [q[i] EXCEPT !.stale = @ \/ q[i].mac # 0]],
                   !.xchg = [i \in DOMAIN @ |-> [@[i] EXCEPT !.stale = TRUE]],
                   !.wsc_pbc_probes = <<>>,
                   !.released = @ + 1,
                   !.rtnl_add_cmd = 0,
                   !.started = FALSE]

\* ap_start_failed: START_FAILED is reported, then the state is reset and
\* freed with its netlink handle.
ap_start_failed(a) ==
    LET a1 == ap_reset(ap_handle_event(a, "START_FAILED", 0), 0)
    IN  [a1 EXCEPT !.nl80211 = <<>>, !.set_beacon = 0, !.life = "freed"]

\* ap_start_cb: the reply to START_AP.
ap_start_cb(a, ok) ==
    LET a1 == [a EXCEPT !.start_stop_cmd_id = 0]
    IN  IF ~ok THEN ap_start_failed(a1)
        ELSE ap_handle_event([a1 EXCEPT !.started = TRUE], "STARTED", 0)

\* ap_ifaddr4_added_cb: the reply to the address change ap_start waited
\* for.  send_ok says whether START_AP could be built and queued.
ap_ifaddr4_added_cb(a, ok, send_ok) ==
    LET a1 == [a EXCEPT !.rtnl_add_cmd = 0]
    IN  IF ~ok \/ ~send_ok THEN ap_start_failed(a1)
        ELSE [ap_genl_send(a1, "START_AP", 0) EXCEPT !.start_stop_cmd_id = 1]

\* The Probe Requests a client can send: match says whether the addresses,
\* the SSID and the channel of the request select this BSS; wsc is "none"
\* without a WSC IE, "pbc" when the IE parses, offers the push button method
\* and has the push button Device Password ID, "other" for any other IE.
ProbeRequests ==
    [from : Macs, match : BOOLEAN, wsc : {"none", "pbc", "other"}]

\* ap_process_wsc_probe_req for a request that passed the three tests.
\* Removing the enrollee inside the loop over ap->sta_states frees the list
\* entry the loop then reads its next pointer from: ub is what that read
\* does.
ap_process_wsc_probe_req(a, from, ub, hit) ==
    LET first == IF a.wsc_pbc_probes = <<>> THEN 0
                 ELSE Head(a.wsc_pbc_probes).mac
        kept == SelectSeq(a.wsc_pbc_probes,
                          LAMBDA r : r.fresh /\ r.mac # from)
        a1 == [a EXCEPT !.wsc_pbc_probes =
                            Append(kept, [mac |-> from, fresh |-> TRUE])]
        a2 == IF a1.wsc_pbc_timeout THEN ap_wsc_exit_pbc(a1) ELSE a1
        enrollee(x) == /\ a2.sta_states[x].known
                       /\ a2.sta_states[x].associated
                       /\ ~a2.sta_states[x].assoc_rsne
                       /\ x = first /\ x # from
    IN  IF kept = <<>> THEN a1
        ELSE IF first \in Macs /\ enrollee(first)
        THEN [ap_remove_sta(a2, first, hit) EXCEPT !.crashed = (ub = "crash")]
        ELSE a2

\* The WSC IE of a Probe Response built before the request is looked at.
ap_write_wsc_ie_early(a, req, ub, hit) ==
    LET a1 == IF req.wsc = "pbc"
              THEN ap_process_wsc_probe_req(a, req.from, ub, hit) ELSE a
    IN  [a1 EXCEPT !.resp.selected_registrar = a.wsc_pbc_timeout]

\* ap_write_wsc_ie for a Probe Response: the WSC IE of the request is
\* processed first, then Selected Registrar is set from the timer.
ap_write_wsc_ie(a, req, ub, hit) ==
    LET a1 == IF req.wsc = "pbc"
              THEN ap_process_wsc_probe_req(a, req.from, ub, hit) ELSE a
    IN  [a1 EXCEPT !.resp.selected_registrar = a1.wsc_pbc_timeout]

\* ap_probe_req_cb: a request that selects this BSS gets a Probe Response.
ap_probe_req_cb(a, req, ub, hit) ==
    IF ~req.match THEN a
    ELSE LET a1 == ap_write_wsc_ie(a, req, ub, hit)
         IN  IF a1.crashed THEN a1
             ELSE [a1 EXCEPT !.resp.type = "PROBE_RESPONSE",
                             !.resp.to = req.from]

\* ap_push_button that does not look at the probe records.
ap_push_button_any(a) ==
    IF ~a.started THEN a
    ELSE IF a.wsc_pbc_timeout THEN a
    ELSE ap_update_beacon([a EXCEPT !.wsc_pbc_timeout = TRUE,
                                    !.wsc_dpid = "PUSH_BUTTON"])

\* ap_push_button.
ap_push_button(a) ==
    IF ~a.started THEN a
    ELSE IF Len(a.wsc_pbc_probes) > 1 THEN a
    ELSE IF a.wsc_pbc_timeout THEN a
    ELSE ap_update_beacon([a EXCEPT !.wsc_pbc_timeout = TRUE,
                                    !.wsc_dpid = "PUSH_BUTTON"])

\* ap_wsc_pbc_timeout_cb: the walk time is over.
ap_wsc_pbc_timeout_cb(a) == ap_wsc_exit_pbc(a)

\* ap_auth_reply: frame 2 of the Open System authentication.
ap_auth_reply(a, dest, status) ==
    [a EXCEPT !.resp = [type |-> "AUTHENTICATION", to |-> dest,
                        status |-> status, aid |-> 0,
                        selected_registrar |-> FALSE]]

\* ap_auth_cb: open_seq1 says that the frame is the first one of an Open
\* System authentication.
ap_auth_cb(a, from, open_seq1) ==
    IF a.authorized_macs # {} /\ from \notin a.authorized_macs
    THEN ap_auth_reply(a, from, "UNSPECIFIED")
    ELSE IF ~open_seq1 THEN ap_auth_reply(a, from, "UNSPECIFIED")
    ELSE IF a.sta_states[from].known THEN ap_auth_reply(a, from, "SUCCESS")
    ELSE ap_auth_reply(
             [a EXCEPT !.sta_states[from] = [NoSta EXCEPT !.known = TRUE]],
             from, "SUCCESS")

\* ap_assoc_resp: the (Re)Association Response; known says whether a struct
\* sta_state was passed, whose AID then goes into the frame.  A response
\* with status 0 is an exchange that ends in ap_success_assoc_resp_cb.
ap_assoc_resp(a, known, dest, status, reassoc) ==
    LET a1 == [a EXCEPT !.resp =
                   [type |-> IF reassoc THEN "REASSOCIATION_RESPONSE"
                             ELSE "ASSOCIATION_RESPONSE",
                    to |-> dest, status |-> status,
                    aid |-> IF known THEN a.sta_states[dest].aid ELSE 0,
                    selected_registrar |-> FALSE]]
    IN  IF status = "SUCCESS"
        THEN [a1 EXCEPT !.xchg = Append(@, [mac |-> dest, stale |-> FALSE]),
                        !.sta_states[dest].assoc_resp_cmd_id = 1]
        ELSE a1

\* ap->ciphers: the one pairwise cipher wiphy_select_cipher picked, as the
\* set of the bits of the bitmap.
ApCiphers == {"CCMP"}

\* struct ie_rsn_info of the RSNE of a request, as far as ap_assoc_reassoc
\* reads it: the pairwise_ciphers and akm_suites bitmaps as sets of their
\* bits, and the mfpr and spp_a_msdu_required capability flags.
RsnInfos ==
    { [pairwise |-> {"CCMP"}, akm |-> {"PSK"}, mfpr |-> FALSE, spp |-> FALSE],
      [pairwise |-> {"CCMP", "TKIP"}, akm |-> {"PSK"}, mfpr |-> FALSE,
       spp |-> FALSE],
      [pairwise |-> {"TKIP"}, akm |-> {"PSK"}, mfpr |-> FALSE, spp |-> FALSE],
      [pairwise |-> {}, akm |-> {"PSK"}, mfpr |-> FALSE, spp |-> FALSE],
      [pairwise |-> {"CCMP"}, akm |-> {"8021X"}, mfpr |-> FALSE,
       spp |-> FALSE],
      [pairwise |-> {"CCMP"}, akm |-> {"PSK", "8021X"}, mfpr |-> FALSE,
       spp |-> FALSE],
      [pairwise |-> {"CCMP"}, akm |-> {"PSK"}, mfpr |-> TRUE, spp |-> TRUE],
      [pairwise |-> {"CCMP"}, akm |-> {"PSK"}, mfpr |-> TRUE, spp |-> FALSE],
      [pairwise |-> {"CCMP"}, akm |-> {"PSK"}, mfpr |-> FALSE, spp |-> TRUE] }

\* The rsn field of a request without a parsed RSNE.
NoRsn == [pairwise |-> {}, akm |-> {}, mfpr |-> FALSE, spp |-> FALSE]

\* The (Re)Association Requests of a client.  ies is "rsn" for a request
\* with rates, the SSID of the network and an RSNE that parses, whose
\* contents are rsn, "wsc" for one with rates, the SSID and a WSC IE of an
\* Enrollee (an RSNE next to it is ignored), "wsc_invalid" when the WSC IE
\* does not parse or has another request type, "invalid" when an element is
\* missing or wrong or the RSNE does not parse, and "rates" when no rate is
\* common.
AssocRequests ==
    [from : Macs, reassoc : BOOLEAN, ies : {"rsn"}, rsn : RsnInfos]
    \cup [from : Macs, reassoc : BOOLEAN,
          ies : {"wsc", "wsc_invalid", "invalid", "rates"}, rsn : {NoRsn}]

\* The tests ap_assoc_reassoc applies to the RSNE of a request.
ap_rsn_status(rsn_info) ==
    IF rsn_info.mfpr /\ rsn_info.spp THEN "UNSPECIFIED"
    ELSE IF \/ Cardinality(rsn_info.pairwise) # 1
            \/ rsn_info.pairwise \cap ApCiphers = {}
    THEN "INVALID_PAIRWISE_CIPHER"
    ELSE IF rsn_info.akm # {"PSK"} THEN "INVALID_AKMP"
    ELSE "SUCCESS"

\* ap_assoc_status with a WSC association let in whenever the station's
\* probe is on record, in active PBC mode or not.
ap_assoc_status_any_mode(a, req) ==
    LET sta == a.sta_states[req.from]
    IN  IF req.reassoc /\ ~sta.associated
        THEN "CLASS3_FRAME_FROM_NONASSOC_STA"
        ELSE IF req.ies = "invalid" THEN "INVALID_IE"
        ELSE IF req.ies = "rates" THEN "UNSPECIFIED"
        ELSE IF req.ies = "wsc_invalid" THEN "INVALID_IE"
        ELSE IF req.ies = "wsc" /\ a.wsc_pbc_probes = <<>> THEN "UNSPECIFIED"
        ELSE IF req.ies = "wsc" /\ Head(a.wsc_pbc_probes).mac # req.from
        THEN "UNSPECIFIED"
        ELSE IF req.ies = "wsc" THEN "SUCCESS"
        ELSE ap_rsn_status(req.rsn)

\* The status ap_assoc_reassoc answers a request with.
ap_assoc_status(a, req) ==
    LET sta == a.sta_states[req.from]
    IN  IF req.reassoc /\ ~sta.associated
        THEN "CLASS3_FRAME_FROM_NONASSOC_STA"
        ELSE IF req.ies = "invalid" THEN "INVALID_IE"
        ELSE IF req.ies = "rates" THEN "UNSPECIFIED"
        ELSE IF req.ies = "wsc_invalid" THEN "INVALID_IE"
        ELSE IF req.ies = "wsc" /\ ~a.wsc_pbc_timeout THEN "UNSPECIFIED"
        ELSE IF req.ies = "wsc" /\ a.wsc_pbc_probes = <<>> THEN "UNSPECIFIED"
        ELSE IF req.ies = "wsc" /\ Head(a.wsc_pbc_probes).mac # req.from
        THEN "UNSPECIFIED"
        ELSE IF req.ies = "wsc" THEN "SUCCESS"
        ELSE ap_rsn_status(req.rsn)

\* sta->aid = ++ap->last_aid, both uint16_t.
ap_next_aid(last_aid) == (last_aid + 1) % 65536

\* ap_assoc_reassoc for a station that has a struct sta_state.
ap_assoc_reassoc(a, req) ==
    LET from == req.from
        sta == a.sta_states[from]
        status == ap_assoc_status(a, req)
        a1 == IF status = "SUCCESS" /\ req.ies = "wsc"
              THEN ap_wsc_exit_pbc(
                       ap_handle_event(a, "REGISTRATION_START", from))
              ELSE a
        a2 == IF sta.rsna THEN ap_drop_rsna(a1, from)
              ELSE IF sta.associated THEN ap_stop_handshake(a1, from)
              ELSE a1
        a3 == IF sta.associated THEN a2
              ELSE [a2 EXCEPT !.last_aid = ap_next_aid(@),
                              !.sta_states[from].aid = ap_next_aid(a2.last_aid),
                              !.draws = @ + 1]
        a4 == [a3 EXCEPT !.sta_states[from].assoc_rsne = (req.ies = "rsn")]
    IN  IF sta.assoc_resp_cmd_id # 0 THEN a
        ELSE IF status = "SUCCESS"
        THEN ap_assoc_resp(a4, TRUE, from, "SUCCESS", req.reassoc)
        ELSE ap_assoc_resp(a2, TRUE, from, status, req.reassoc)

\* ap_assoc_req_cb and ap_reassoc_req_cb for a frame addressed to this BSS.
ap_assoc_req_cb(a, req) ==
    IF ~a.sta_states[req.from].known
    THEN ap_assoc_resp(a, FALSE, req.from, "STA_REQ_ASSOC_WITHOUT_AUTH",
                       req.reassoc)
    ELSE ap_assoc_reassoc(a, req)

\* ap_start_rsna and ap_start_eap_wsc: the handshake with the station runs.
ap_start_handshake(a, mac) == [a EXCEPT !.sta_states[mac].hs = TRUE]

\* ap_associate_sta: the station enters State 3 and the kernel is told.
ap_associate_sta(a, mac) ==
    LET c == IF a.sta_states[mac].associated
             THEN "SET_STATION" ELSE "NEW_STATION"
    IN  ap_genl_send([a EXCEPT !.sta_states[mac].associated = TRUE,
                               !.sta_states[mac].rsna = FALSE], c, mac)

\* ap_associate_sta_cb that starts the 4-Way Handshake at once, without the
\* group key and without asking for its sequence counter.
ap_associate_sta_cb_direct(a, mac, ok) ==
    IF ~ok THEN a ELSE ap_start_handshake(a, mac)

\* ap_associate_sta_cb: the reply to NEW_STATION or SET_STATION.  An
\* Enrollee starts EAP-WSC; another station has the group key installed if
\* it is the first and its sequence counter queried.
ap_associate_sta_cb(a, mac, ok) ==
    IF ~ok THEN a
    ELSE IF ~a.sta_states[mac].assoc_rsne THEN ap_start_handshake(a, mac)
    ELSE LET a1 == IF a.gtk_set THEN a
                   ELSE [ap_genl_send(ap_genl_send(a, "NEW_KEY", 0),
                                      "SET_KEY", 0) EXCEPT !.gtk_set = TRUE]
         IN  ap_genl_send(a1, "GET_KEY", mac)

\* ap_gtk_query_cb: the reply to GET_KEY.
ap_gtk_query_cb(a, mac, ok) ==
    IF ok THEN ap_start_handshake(a, mac) ELSE ap_del_station(a, mac)

\* ap_success_assoc_resp_cb that associates the station whether the Response
\* was acknowledged or not.
ap_success_assoc_resp_cb_any(a, mac, acked) ==
    ap_associate_sta([a EXCEPT !.sta_states[mac].assoc_resp_cmd_id = 0], mac)

\* ap_success_assoc_resp_cb: the exchange of a Response with status 0 ended,
\* acked or not.
ap_success_assoc_resp_cb(a, mac, acked) ==
    LET a1 == [a EXCEPT !.sta_states[mac].assoc_resp_cmd_id = 0]
    IN  IF ~acked
        THEN IF a1.sta_states[mac].associated
             THEN ap_del_station(a1, mac) ELSE a1
        ELSE ap_associate_sta(a1, mac)

\* ap_disassoc_cb removing the entry as ap_deauth_cb does.
ap_disassoc_cb_remove(a, from, hit) ==
    IF ~a.sta_states[from].known THEN a
    ELSE ap_sta_free(ap_del_station(a, from), from, hit)

\* ap_disassoc_cb.
ap_disassoc_cb(a, from, hit) ==
    LET sta == a.sta_states[from]
        a1 == IF sta.known /\ sta.assoc_resp_cmd_id # 0
              THEN [ap_genl_cancel_foreign(a, hit)
                        EXCEPT !.sta_states[from].assoc_resp_cmd_id = 0]
              ELSE a
    IN  IF ~sta.known \/ ~sta.associated THEN a1
        ELSE ap_del_station(a1, from)

\* ap_deauth_cb.
ap_deauth_cb(a, from, hit) ==
    IF ~a.sta_states[from].known THEN a
    ELSE ap_sta_free(ap_del_station(a, from), from, hit)

\* ap_handshake_event that keeps the probe records of an Enrollee whose
\* registration sent the credential.
ap_handshake_event_keep(a, mac, ok, hit) ==
    LET sta == a.sta_states[mac]
    IN  IF sta.assoc_rsne
        THEN IF ok THEN ap_new_rsna(a, mac)
             ELSE ap_remove_sta(a, mac, hit)
        ELSE IF ok
        THEN ap_handle_event(a, "REGISTRATION_SUCCESS", mac)
        ELSE ap_stop_handshake(a, mac)

\* ap_handshake_event and ap_wsc_handshake_event.  A 4-Way Handshake that
\* completes makes the station an RSNA, one that fails removes the station.
\* A registration that sent the credential drops the probe records of the
\* Enrollee; one that failed leaves the station associated.
ap_handshake_event(a, mac, ok, hit) ==
    LET sta == a.sta_states[mac]
    IN  IF sta.assoc_rsne
        THEN IF ok THEN ap_new_rsna(a, mac)
             ELSE ap_remove_sta(a, mac, hit)
        ELSE IF ok
        THEN ap_handle_event(
                 [a EXCEPT !.wsc_pbc_probes =
                               SelectSeq(@, LAMBDA r : r.mac # mac)],
                 "REGISTRATION_SUCCESS", mac)
        ELSE ap_stop_handshake(a, mac)

\* ap_handle_new_station: the kernel reports a station that associated in
\* the driver, with the RSNE and rates of its request.
ap_handle_new_station(a, mac) ==
    IF a.sta_states[mac].known THEN a
    ELSE ap_genl_send(
             [a EXCEPT !.last_aid = ap_next_aid(@),
                       !.draws = @ + 1,
                       !.sta_states[mac] =
                           [NoSta EXCEPT !.known = TRUE,
                                         !.associated = TRUE,
                                         !.assoc_rsne = TRUE,
                                         !.aid = ap_next_aid(a.last_aid)]],
             "SET_STATION", mac)

\* ap_handle_del_station: the kernel reports that a station is gone.
ap_handle_del_station(a, mac, hit) ==
    IF ~a.sta_states[mac].known THEN a
    ELSE ap_remove_sta(ap_del_station(a, mac), mac, hit)

\* ap_mlme_notify for NL80211_CMD_STOP_AP: the kernel stopped the AP, the
\* state is reset and freed.
ap_mlme_notify_stop(a, hit) ==
    LET a1 == IF a.start_stop_cmd_id # 0
              THEN ap_handle_event(
                       [ap_genl_cancel(a, a.start_stop_cmd_id)
                            EXCEPT !.start_stop_cmd_id = 0],
                       "START_FAILED", 0)
              ELSE IF a.started
              THEN ap_handle_event([a EXCEPT !.started = FALSE],
                                   "STOPPING", 0)
              ELSE a
    IN  [ap_reset(a1, hit) EXCEPT !.nl80211 = <<>>, !.set_beacon = 0,
                              !.life = "freed"]

\* ap_stop_cb telling the owner and keeping the state for a second reply.
ap_stop_cb_twice(a) ==
    LET a1 == [a EXCEPT !.start_stop_cmd_id = 0]
    IN  IF a1.stopped_func
        THEN [a1 EXCEPT !.stopped_calls = @ + 2, !.nl80211 = <<>>,
                        !.set_beacon = 0, !.life = "freed"]
        ELSE [a1 EXCEPT !.nl80211 = <<>>, !.set_beacon = 0, !.life = "freed"]

\* ap_stop_cb: the reply to STOP_AP; the owner is told and the state freed.
ap_stop_cb(a) ==
    LET a1 == [a EXCEPT !.start_stop_cmd_id = 0]
        a2 == IF a1.stopped_func
              THEN [a1 EXCEPT !.stopped_calls = @ + 1] ELSE a1
    IN  [a2 EXCEPT !.nl80211 = <<>>, !.set_beacon = 0, !.life = "freed"]

\* ap_shutdown: send_ok says whether STOP_AP could be queued; when not, the
\* owner is told at once and the state is freed.
ap_shutdown(a, with_func, send_ok, hit) ==
    LET a1 == IF a.started
              THEN ap_handle_event([a EXCEPT !.started = FALSE],
                                   "STOPPING", 0)
              ELSE a
        a2 == ap_reset(a1, hit)
        a3 == IF a2.gtk_set
              THEN ap_genl_send([a2 EXCEPT !.gtk_set = FALSE], "DEL_KEY", 0)
              ELSE a2
    IN  IF send_ok
        THEN [ap_genl_send(a3, "STOP_AP", 0)
                  EXCEPT !.start_stop_cmd_id = 1,
                         !.stopped_func = with_func,
                         !.owner_done = TRUE,
                         !.life = "stopping"]
        ELSE [a3 EXCEPT !.stopped_calls = IF with_func THEN @ + 1 ELSE @,
                        !.owner_done = TRUE,
                        !.nl80211 = <<>>, !.set_beacon = 0, !.life = "freed"]

\* ap_free: the state is reset and freed with its netlink handle, whose
\* outstanding commands are dropped.  After ap_shutdown the second ap_reset
\* frees the rate set and the queues again: ub is what that does.
ap_free(a, ub, hit) ==
    LET a1 == [ap_reset(a, hit) EXCEPT !.nl80211 = <<>>, !.set_beacon = 0,
                                       !.life = "freed", !.freed = TRUE,
                                       !.owner_done = TRUE]
    IN  IF a.life = "stopping" /\ ub = "crash"
        THEN [a EXCEPT !.crashed = TRUE, !.freed = TRUE,
                       !.owner_done = TRUE, !.released = @ + 1]
        ELSE a1

\* A run of n Association Requests of a station in State 2, each one valid,
\* answered with status 0 and a new AID by ap_assoc_reassoc, and each
\* Response left without an ACK, so that ap_success_assoc_resp_cb leaves
\* the station in State 2.
ap_assoc_run(a, mac, n) ==
    [a EXCEPT !.last_aid = (@ + n) % 65536,
              !.sta_states[mac].aid = (a.last_aid + n) % 65536,
              !.sta_states[mac].assoc_rsne = TRUE,
              !.runs = @ + 1]

\* Commands the handle may have outstanding, SET_BEACON commands among them,
\* and frame exchanges that may be under way when a further frame or call
\* arrives.
MaxOutstanding == 2
MaxBeacons == 2
MaxExchanges == 1

\* The AP runs and the main loop can take a further frame or call.
ApReceiving ==
    /\ ap.life = "running" /\ ap.started /\ ~ap.crashed
    /\ Len(ap.nl80211) < MaxOutstanding
    /\ ap.set_beacon < MaxBeacons

\* The choices for the command a cancel with a foreign id removes.
Hits == -1 .. MaxOutstanding

\* A cancel with a foreign id happens when a station whose Response is
\* still under way is freed or disassociates; only then hit can be a
\* command.
HitFor(macs, hit) ==
    \/ hit = 0
    \/ /\ hit \in DOMAIN ap.nl80211 \/ (hit = -1 /\ ap.set_beacon > 0)
       /\ \E x \in macs : ap.sta_states[x].assoc_resp_cmd_id # 0

\* What is left between two handlers: the frame a handler sent is on the
\* air and gone, the events it reported stay on record until the next
\* handler.  Once the process has crashed or the struct was freed nothing of
\* the struct can be read any more: only the frame exchanges that still hold
\* a pointer to it, the walk-time timer that was never removed, and the
\* record of what the owner was told, remain.
ApSettle(a) ==
    IF a.crashed \/ a.life = "freed"
    THEN [ap_start({}) EXCEPT !.life = a.life, !.crashed = a.crashed,
                              !.start_stop_cmd_id = 0, !.nl80211 = <<>>,
                              !.xchg = IF a.crashed THEN <<>> ELSE a.xchg,
                              !.stopped_calls = a.stopped_calls,
                              !.freed = a.freed,
                              !.released = a.released,
                              !.owner_done = a.owner_done,
                              !.wsc_pbc_timeout =
                                  (a.wsc_pbc_timeout /\ ~a.crashed),
                              !.events = a.events, !.resp = NoResp]
    ELSE [a EXCEPT !.resp = NoResp]

\* One handler of the access point ran and left the struct as a2.
ApStep(a2) ==
    /\ ap' = ApSettle(a2)
    /\ UNCHANGED <<nd, genl, rtnl, wire, kern, cur, alive, crashed, hist,
                   last, out>>

\* The kernel answers the oldest outstanding command of the handle.
ApGenlReply(ok, ub) ==
    /\ ap.life \in {"running", "stopping"} /\ ~ap.crashed
    /\ ap.nl80211 # <<>>
    /\ ub = "benign" \/ ( /\ Head(ap.nl80211).stale
                          /\ Head(ap.nl80211).c \in {"NEW_STATION", "SET_STATION"} )
    /\ LET e == Head(ap.nl80211)
           a == [ApBegin(ap, e.c) EXCEPT !.nl80211 = Tail(@)]
       IN  ApStep(
             IF e.stale /\ e.c \in {"NEW_STATION", "SET_STATION"}
             THEN [a EXCEPT !.crashed = (ub = "crash")]
             ELSE IF e.c = "START_AP" THEN ap_start_cb(a, ok)
             ELSE IF e.c = "STOP_AP" THEN ap_stop_cb(a)
             ELSE IF e.c \in {"NEW_STATION", "SET_STATION"}
             THEN ap_associate_sta_cb(a, e.mac, ok)
             ELSE IF e.c = "GET_KEY" THEN ap_gtk_query_cb(a, e.mac, ok)
             ELSE a)

\* The kernel answers a SET_BEACON: ap_set_beacon_cb logs an error, if any.
ApBeaconReply ==
    /\ ap.life \in {"running", "stopping"} /\ ~ap.crashed
    /\ ap.set_beacon > 0
    /\ ApStep([ApBegin(ap, "SET_BEACON") EXCEPT !.set_beacon = @ - 1])

\* The oldest frame exchange ends: the Response was acked, or given up.
ApExchangeDone(acked, ub) ==
    /\ ap.life # "none" /\ ~ap.crashed
    /\ ap.xchg # <<>>
    /\ ub = "benign" \/ Head(ap.xchg).stale
    /\ LET x == Head(ap.xchg)
           a == [ApBegin(ap, "assoc_resp_done") EXCEPT !.xchg = Tail(@)]
       IN  ApStep(IF x.stale THEN [a EXCEPT !.crashed = (ub = "crash")]
                  ELSE ap_success_assoc_resp_cb(a, x.mac, acked))

\* A Probe Request arrives.
ApProbeReq(req, ub, hit) ==
    /\ ApReceiving
    /\ HitFor(Macs \ {req.from}, hit)
    /\ ub = "benign" \/ ap_probe_req_cb(ap, req, ub, hit).crashed
    /\ ApStep(ap_probe_req_cb(ApBegin(ap, "probe_req"), req, ub, hit))

\* The reply to the address change arrives.
ApIfaddr4Added(ok, send_ok) ==
    /\ ap.life = "running" /\ ~ap.crashed
    /\ ap.rtnl_add_cmd # 0
    /\ ApStep(ap_ifaddr4_added_cb(ApBegin(ap, "ifaddr4_added"), ok, send_ok))

\* The owner calls ap_push_button.
ApPushButton ==
    /\ ApReceiving
    /\ ApStep(ap_push_button(ApBegin(ap, "push_button")))

\* The walk-time timer fires.
ApPbcTimeout ==
    /\ ap.life \in {"running", "stopping"} /\ ~ap.crashed
    /\ ap.wsc_pbc_timeout
    /\ ap.set_beacon < MaxBeacons
    /\ ApStep(ap_wsc_pbc_timeout_cb(ApBegin(ap, "pbc_timeout")))

\* The walk-time timer fires after the struct was freed: no path that
\* frees it removes the timer, so ap_wsc_pbc_timeout_cb is handed the freed
\* pointer; ub is what reading it does.
ApPbcTimeoutFreed(ub) ==
    /\ ap.life = "freed" /\ ~ap.crashed
    /\ ap.wsc_pbc_timeout
    /\ ApStep([ApBegin(ap, "pbc_timeout") EXCEPT !.wsc_pbc_timeout = FALSE,
                                                !.crashed = (ub = "crash")])

\* Time passes: the k oldest probe records are now older than the monitor
\* time of 120 s.
ApTick(k) ==
    /\ ap.life = "running" /\ ~ap.crashed
    /\ k \in DOMAIN ap.wsc_pbc_probes
    /\ ap.wsc_pbc_probes[k].fresh
    /\ ApStep([ApBegin(ap, "tick") EXCEPT !.wsc_pbc_probes =
                  [i \in DOMAIN @ |-> [@[i] EXCEPT !.fresh = @ /\ i > k]]])

\* An Authentication frame arrives.
ApAuth(from, open_seq1) ==
    /\ ApReceiving
    /\ ApStep(ap_auth_cb(ApBegin(ap, "auth"), from, open_seq1))

\* An Association or Reassociation Request arrives.
ApAssocReq(req) ==
    /\ ApReceiving
    /\ Len(ap.xchg) < MaxExchanges
    /\ ap.draws < MaxAidDraws
    /\ ApStep(ap_assoc_req_cb(ApBegin(ap, "assoc_req"), req))

\* A station in State 2 keeps sending Association Requests and never acks
\* the Responses.
ApAssocRun(mac, n) ==
    /\ ApReceiving
    /\ ap.xchg = <<>>
    /\ ap.runs < MaxRuns
    /\ ap.sta_states[mac].known /\ ~ap.sta_states[mac].associated
    /\ ap.sta_states[mac].assoc_resp_cmd_id = 0
    /\ ApStep(ap_assoc_run(ApBegin(ap, "assoc_run"), mac, n))

\* A Disassociation frame arrives.
ApDisassoc(from, hit) ==
    /\ ApReceiving
    /\ HitFor({from}, hit)
    /\ ApStep(ap_disassoc_cb(ApBegin(ap, "disassoc"), from, hit))

\* A Deauthentication frame arrives.
ApDeauth(from, hit) ==
    /\ ApReceiving
    /\ HitFor({from}, hit)
    /\ ApStep(ap_deauth_cb(ApBegin(ap, "deauth"), from, hit))

\* The handshake of a station reports: complete (the credential sent, for
\* an Enrollee) or failed.
ApHandshakeEvent(mac, ok, hit) ==
    /\ ApReceiving
    /\ HitFor({mac}, hit)
    /\ ap.sta_states[mac].hs
    /\ ok => ~ap.sta_states[mac].rsna
    /\ ApStep(ap_handshake_event(ApBegin(ap, "handshake_event"), mac, ok, hit))

\* The kernel reports a new station.
ApNewStation(mac) ==
    /\ ApReceiving
    /\ ap.draws < MaxAidDraws
    /\ ApStep(ap_handle_new_station(ApBegin(ap, "new_station"), mac))

\* The kernel reports a station gone.
ApDelStation(mac, hit) ==
    /\ ApReceiving
    /\ HitFor({mac}, hit)
    /\ ApStep(ap_handle_del_station(ApBegin(ap, "del_station"), mac, hit))

\* The kernel reports that it stopped the AP.
ApStopEvent(hit) ==
    /\ ap.life = "running" /\ ~ap.crashed
    /\ HitFor(Macs, hit)
    /\ ApStep(ap_mlme_notify_stop(ApBegin(ap, "stop_event"), hit))

\* The owner calls ap_shutdown.
ApShutdown(with_func, send_ok, hit) ==
    /\ ap.life = "running" /\ ~ap.crashed
    /\ HitFor(Macs, hit)
    /\ ApStep(ap_shutdown(ApBegin(ap, "ap_shutdown"), with_func, send_ok, hit))

\* The owner calls ap_free, on a running AP or after ap_shutdown.
ApFree(ub, hit) ==
    /\ ap.life \in {"running", "stopping"} /\ ~ap.crashed
    /\ HitFor(Macs, hit)
    /\ ub = "benign" \/ ap.life = "stopping"
    /\ ApStep(ap_free(ApBegin(ap, "ap_free"), ub, hit))

\* The state after ap_start returned, for a profile without and one with
\* an AuthorizedMACs list.
APInit ==
    /\ StaInit
    /\ ap \in {ap_start(macs) : macs \in AuthorizedMacsSettings}

\* What the kernel and the radio do for every access point: commands are
\* answered, frame exchanges end, stations authenticate and associate and
\* their handshakes report.
ApCommon ==
    \/ \E ok \in BOOLEAN, ub \in UB : ApGenlReply(ok, ub)
    \/ \E acked \in BOOLEAN, ub \in UB : ApExchangeDone(acked, ub)
    \/ \E from \in Macs, open_seq1 \in BOOLEAN : ApAuth(from, open_seq1)
    \/ \E req \in AssocRequests : ApAssocReq(req)
    \/ \E mac \in Macs, ok \in BOOLEAN, hit \in Hits :
           ApHandshakeEvent(mac, ok, hit)

\* An access point whose owner uses the push button: clients probe, the
\* button is pushed, the walk time and the monitor time pass.
APNext ==
    \/ ApCommon
    \/ ApBeaconReply
    \/ \E req \in ProbeRequests, ub \in UB, hit \in Hits :
           ApProbeReq(req, ub, hit)
    \/ ApPushButton
    \/ ApPbcTimeout
    \/ \E k \in 1 .. MaxStations : ApTick(k)

\* The state after ap_start returned for a profile without AuthorizedMACs.
PbcInit ==
    /\ StaInit
    /\ ap = ap_start({})

APSpec == PbcInit /\ [][APNext]_vars

\* An access point whose stations come and go: they disassociate and
\* deauthenticate, the kernel reports stations, and a station may repeat
\* its Association Request for a long time.
StaNext ==
    \/ ApCommon
    \/ \E mac \in Macs, n \in RunLengths : ApAssocRun(mac, n)
    \/ \E from \in Macs, hit \in Hits : ApDisassoc(from, hit)
    \/ \E from \in Macs, hit \in Hits : ApDeauth(from, hit)
    \/ \E mac \in Macs : ApNewStation(mac)
    \/ \E mac \in Macs, hit \in Hits : ApDelStation(mac, hit)

StaSpec == APInit /\ [][StaNext]_vars

\* An access point that is stopped: by its owner with ap_shutdown or
\* ap_free, or by the kernel.
StopNext ==
    \/ ApCommon
    \/ ApBeaconReply
    \/ ApPushButton
    \/ ApPbcTimeout
    \/ \E ub \in UB : ApPbcTimeoutFreed(ub)
    \/ \E hit \in Hits : ApStopEvent(hit)
    \/ \E with_func \in BOOLEAN, send_ok \in BOOLEAN, hit \in Hits :
           ApShutdown(with_func, send_ok, hit)
    \/ \E ub \in UB, hit \in Hits : ApFree(ub, hit)

StopSpec == APInit /\ [][StopNext]_vars

\* The state after ap_start returned: START_AP is outstanding, or the
\* address change is and START_AP waits for it.
StartInit ==
    /\ StaInit
    /\ ap \in {ap_start(macs) : macs \in AuthorizedMacsSettings}
               \cup {ap_start_wait(macs) : macs \in AuthorizedMacsSettings}

\* An access point from ap_start on: the address change and START_AP are
\* answered, the AP runs, and it is stopped by its owner or by the kernel.
StartNext ==
    \/ StopNext
    \/ \E ok \in BOOLEAN, send_ok \in BOOLEAN : ApIfaddr4Added(ok, send_ok)

\* The kernel answers every command of the netlink handles, sooner or later.
StartSpec ==
    /\ StartInit
    /\ [][StartNext]_vars
    /\ WF_vars(\E ok \in BOOLEAN, ub \in UB : ApGenlReply(ok, ub))
    /\ WF_vars(\E ok \in BOOLEAN, send_ok \in BOOLEAN :
                   ApIfaddr4Added(ok, send_ok))

\* ------------------------------------------------------------------------
\* Properties
\* ------------------------------------------------------------------------

\* The callbacks and events a step delivered that report a failed or lost
\* connection: a connect callback with an error result, or DISCONNECT_BY_SME.
FailureReported(o) ==
    \E i \in DOMAIN o :
        \/ o[i].t = "connect_cb" /\ o[i].v # "OK"
        \/ o[i].t = "event" /\ o[i].v = "DISCONNECT_BY_SME"

\* C1: every Connect call that returned success gets exactly one connect
\* callback.  Stated for the moment the attempt's connection is gone from a
\* live interface: from then on netdev.c holds no connect callback for it,
\* so the callback must have been delivered exactly once by then.
C1_ExactlyOneCallback ==
    (alive /\ ~crashed /\ cur > 0 /\ ~nd.connected) => hist.cb_count = 1

\* C2: every outstanding key-installation command issued on behalf of the
\* latest connection has its id stored in struct netdev, where teardown can
\* find and cancel it.
C2_EveryIdStored ==
    (alive /\ ~crashed) =>
        \A i \in DOMAIN genl :
            ( /\ ~genl[i].cancelled
              /\ genl[i].cmd.a = cur
              /\ genl[i].cmd.c \in KeyCommands )
                => genl[i].id \in StoredIds(nd)

\* C3: when Disconnect has been called twice for a connection (the first
\* call found the interface connected), exactly one DEAUTHENTICATE has been
\* sent for that connection.
C3_OneDeauthenticate ==
    (hist.disc_calls >= 2 /\ hist.disc_first # "ENOTCONN")
        => hist.deauth_sent = 1

\* C4: a Connect request made while the interface is connected returns
\* -EISCONN and leaves struct netdev, both netlink queues and the kernel's
\* view as they were.
C4_ConnectWhileConnected ==
    [][ (nd.connected /\ last'.op = "netdev_connect")
            => /\ last'.ret = "EISCONN"
               /\ UNCHANGED <<nd, genl, rtnl, wire, kern, cur, hist>> ]_vars

C4_Witness ==
    /\ last.op = "netdev_connect"
    /\ last.ret = "EISCONN"
    /\ nd.connected
    /\ nd.operational

\* C5: while the interface exists, the connected flag goes from true to
\* false only in a step that is an explicit Disconnect, a peer disconnect or
\* beacon-loss notification, or a failure path that reports the failure, and
\* that step clears the whole connection state.
C5_ConnectedUntilTeardown ==
    [][ (nd.connected /\ ~nd'.connected /\ alive')
            => /\ \/ last'.op = "netdev_disconnect"
                  \/ BeaconLoss
                  \/ \E by_ap \in BOOLEAN : DisconnectEvent(by_ap)
                  \/ FailureReported(out')
               /\ nd'.handshake = NoHandshake
               /\ nd'.sm = "none"
               /\ ~nd'.operational
               /\ ~nd'.in_ft
               /\ nd'.connect_cb = NULL
               /\ nd'.event_filter = NULL ]_vars

\* The place of a key command in the required order.
KeyRank(cmd) ==
    CASE cmd.c = "NEW_KEY" /\ cmd.reason = "pairwise" -> 1
      [] cmd.c = "SET_KEY" -> 2
      [] cmd.c = "NEW_KEY" /\ cmd.reason = "group" -> 3
      [] cmd.c = "NEW_KEY" /\ cmd.reason = "group_management" -> 4
      [] cmd.c = "SET_STATION" -> 5

C7_FailureIsReported ==
    [][ \A i \in DOMAIN out' :
            ( /\ out'[i].t = "connect_cb"
              /\ out'[i].f = Ptr("conn", cur)
              /\ hist.failure # {}
              /\ hist.transitions = 0 )
                => out'[i].v \in hist.failure ]_vars

\* C8: once a key-installation command of the connection has failed, the
\* answer to any other key command of that connection takes no effect: it
\* changes nothing in struct netdev, sends nothing and reports nothing.
C8_BatchCancelled ==
    [][ ( /\ "KEY_SETTING_FAILED" \in hist.failure
          /\ genl # <<>>
          /\ Head(genl).cmd.c \in KeyCommands
          /\ Head(genl).cmd.a = cur
          /\ \E ok \in BOOLEAN : GenlReply(ok) )
            => /\ nd' = nd
               /\ rtnl' = rtnl
               /\ genl' = Tail(genl)
               /\ out' = <<>> ]_vars

\* C9: a CONNECT notification or a key-command or operstate answer that
\* belongs to an attempt that is over (a newer attempt was accepted, or the
\* attempt's callback fired with an error, or Disconnect was accepted for
\* it) changes nothing in struct netdev, sends nothing and reports nothing.
C9_Over(a) ==
    \/ a < cur
    \/ a = cur /\ hist.cb_count >= 1 /\ hist.cb_result # "OK"
    \/ a = cur /\ hist.disc_first = "0"

C9_LateResultsIgnored ==
    [][ ( \/ /\ kern.connect
             /\ C9_Over(kern.link)
             /\ \E msg \in ConnectEventMsgs, ub \in UB : ConnectEvent(msg, ub)
          \/ /\ genl # <<>>
             /\ Head(genl).cmd.c \in KeyCommands
             /\ C9_Over(Head(genl).cmd.a)
             /\ \E ok \in BOOLEAN : GenlReply(ok)
          \/ /\ rtnl # <<>>
             /\ C9_Over(Head(rtnl).a)
             /\ \E ok \in BOOLEAN : RtnlReply(ok) )
            => /\ nd' = nd
               /\ crashed' = crashed
               /\ Len(genl') <= Len(genl)
               /\ Len(rtnl') <= Len(rtnl)
               /\ out' = <<>> ]_vars

\* C10: a Disconnect request made while the interface is connected sends one
\* DEAUTHENTICATE with reason LEAVING, and, as long as the interface exists,
\* a disconnect callback is invoked only in the step that handles the answer
\* to such a command.
C10_DisconnectSendsLeaving ==
    [][ /\ (nd.connected /\ last'.op = "netdev_disconnect")
            => LeavingSent(genl, genl') = 1
        /\ (alive' /\ \E i \in DOMAIN out' : out'[i].t = "disconnect_cb")
            => /\ genl # <<>>
               /\ Head(genl).cmd.c = "DEAUTHENTICATE"
               /\ Head(genl).cmd.reason = "LEAVING"
               /\ genl' = Tail(genl) ]_vars

\* C16: in a Fast BSS Transition the MDE of the FT Authenticate Request is
\* byte for byte the MDE the target BSS advertises (element header and the
\* three bytes of its body), and the MDE of the Reassociate Request that
\* follows is that same MDE.
C16_FtMdeVerbatim ==
    [][ /\ \A t \in TargetBss :
              (FastTransition(t) /\ last'.ret = "0")
                  => /\ Len(genl') = Len(genl) + 1
                     /\ genl'[Len(genl')].cmd.c = "AUTHENTICATE"
                     /\ genl'[Len(genl')].cmd.mde = AdvertisedMde(t)
        /\ ( /\ \E msg \in AuthEventMsgs, ub \in UB : AuthenticateEvent(msg, ub)
             /\ Len(genl') > Len(genl)
             /\ genl'[Len(genl')].cmd.c = "ASSOCIATE" )
              => genl'[Len(genl')].cmd.mde = hist.target_mde
      ]_vars

\* A Reassociate Request is outstanding for a target whose MDE differs from
\* the home BSS's in the FT capability byte.
C16_Witness ==
    /\ hist.target_mde = <<54, 3, 52, 18, 0>>
    /\ \E i \in DOMAIN genl : /\ genl[i].cmd.c = "ASSOCIATE"
                               /\ ~genl[i].cancelled
                               /\ genl[i].cmd.mde = hist.target_mde

\* C20 as stated: when an RSN connection was requested, an association
\* response without an RSNE is invalid and the association fails.
C20_RsneRequired ==
    [][ \A msg \in ConnectEventMsgs, ub \in UB :
            ( /\ ConnectEvent(msg, ub)
              /\ nd.connected /\ nd.handshake.is_rsn
              /\ ~msg.timed_out /\ msg.status = 0
              /\ msg.ies.rsne = "absent" )
                => ~nd'.connected
      ]_vars

\* C20 amended: when an RSN connection was requested, the reassociation
\* response of a Fast BSS Transition is accepted only if it carries an RSNE
\* (with the PMK-R1-Name, matching the advertised one); the response to any
\* other association is accepted only if it carries no RSNE.  A response
\* that fails the test ends the connection.
C20_RsneByMode ==
    [][ \A msg \in ConnectEventMsgs, ub \in UB :
            ( /\ ConnectEvent(msg, ub)
              /\ nd.connected /\ nd.handshake.is_rsn
              /\ ~msg.timed_out /\ msg.status = 0 )
                => /\ nd'.connected =>
                        msg.ies.rsne = (IF nd.in_ft THEN "match" ELSE "absent")
                   /\ msg.ies.rsne # (IF nd.in_ft THEN "match" ELSE "absent")
                        => ~nd'.connected /\ nd'.handshake = NoHandshake
      ]_vars

\* A Fast BSS Transition in an RSN has completed: its reassociation response
\* was accepted.
C20_Witness ==
    /\ hist.transitions = 1
    /\ nd.connected /\ nd.operational /\ ~nd.in_ft
    /\ nd.handshake.is_rsn
    /\ hist.cb_result = "OK"

\* C11: when a PBC Probe Request arrives in active PBC mode while the PBC
\* Probe Request of another address is on record and less than 120 s old,
\* the AP has left active PBC mode before it builds the Probe Response:
\* the response that goes out does not advertise a selected registrar, and
\* PBC_MODE_EXIT has been reported.
C11_OverlapExitsBeforeResponse ==
    \A req \in ProbeRequests, ub \in UB, hit \in Hits :
        ( /\ ApReceiving
          /\ req.match /\ req.wsc = "pbc"
          /\ ap.wsc_pbc_timeout
          /\ \E i \in DOMAIN ap.wsc_pbc_probes :
                 /\ ap.wsc_pbc_probes[i].fresh
                 /\ ap.wsc_pbc_probes[i].mac # req.from )
            => LET r == ap_probe_req_cb(ApBegin(ap, "probe_req"), req, ub, hit)
               IN  \/ r.crashed
                   \/ /\ r.resp.type = "PROBE_RESPONSE"
                      /\ r.resp.to = req.from
                      /\ ~r.resp.selected_registrar
                      /\ ~r.wsc_pbc_timeout
                      /\ \E i \in DOMAIN r.events :
                             r.events[i].ev = "PBC_MODE_EXIT"

\* The second of two PBC Probe Requests of different addresses has just
\* ended active PBC mode: both requests are on record and fresh.
C11_Witness ==
    /\ ap.life = "running" /\ ~ap.crashed
    /\ ~ap.wsc_pbc_timeout
    /\ Len(ap.wsc_pbc_probes) = 2
    /\ ap.wsc_pbc_probes[1].fresh /\ ap.wsc_pbc_probes[2].fresh
    /\ ap.wsc_pbc_probes[1].mac # ap.wsc_pbc_probes[2].mac
    /\ \E i \in DOMAIN ap.events : ap.events[i].ev = "PBC_MODE_EXIT"

\* C12: an Association Request with a valid WSC IE, sent by a station that
\* has authenticated and has no Response under way (a Reassociation Request
\* only by a station that is associated), is answered with status 0 only
\* when the AP is in active PBC mode and the station is the one PBC prober
\* on record; in every other state of the PBC mode, also after a session
\* overlap and for both overlapping addresses, it is refused with status
\* UNSPECIFIED.
C12_WscAssocOnlyInPbc ==
    \A req \in AssocRequests :
        ( /\ ApReceiving
          /\ req.ies = "wsc"
          /\ ap.sta_states[req.from].known
          /\ ap.sta_states[req.from].assoc_resp_cmd_id = 0
          /\ req.reassoc => ap.sta_states[req.from].associated )
            => LET r == ap_assoc_req_cb(ApBegin(ap, "assoc_req"), req)
                   sole == /\ ap.wsc_pbc_timeout
                           /\ Len(ap.wsc_pbc_probes) = 1
                           /\ ap.wsc_pbc_probes[1].mac = req.from
               IN  /\ r.resp.to = req.from
                   /\ r.resp.status = (IF sole THEN "SUCCESS" ELSE "UNSPECIFIED")
                   /\ r.sta_states[req.from].assoc_resp_cmd_id # 0 <=> sole

\* The Enrollee that probed alone in active PBC mode has sent its
\* Association Request and the registration has started.
C12_Witness ==
    \E x \in Macs :
        /\ ap.life = "running" /\ ~ap.crashed
        /\ ap.sta_states[x].known
        /\ ap.sta_states[x].assoc_resp_cmd_id # 0
        /\ ~ap.sta_states[x].assoc_rsne
        /\ ~ap.wsc_pbc_timeout
        /\ \E i \in DOMAIN ap.events :
               ap.events[i] = [ev |-> "REGISTRATION_START", mac |-> x]

\* C17: beacon updates are serialized: at any moment at most one SET_BEACON
\* command of the AP has been sent and not yet answered.
C17_OneBeaconInFlight ==
    ap.life \in {"running", "stopping"} => ap.set_beacon <= 1

\* C13: no two stations of the AP that are associated at the same time have
\* the same AID.
C13_AidsDistinct ==
    \A x \in Macs, y \in Macs :
        ( /\ x # y
          /\ ap.sta_states[x].known /\ ap.sta_states[x].associated
          /\ ap.sta_states[y].known /\ ap.sta_states[y].associated )
            => ap.sta_states[x].aid # ap.sta_states[y].aid

\* C14: every AID the AP has assigned to a station, whether the station is
\* associated or its Association Response is still under way, lies in the
\* range 1..2007.
C14_AidInRange ==
    \A x \in Macs :
        ( /\ ap.sta_states[x].known
          /\ ap.sta_states[x].associated
               \/ ap.sta_states[x].assoc_resp_cmd_id # 0 )
            => ap.sta_states[x].aid \in 1 .. 2007

\* C15: with an allow-list configured, an Authentication frame from an
\* address that is not on the list is answered with status UNSPECIFIED and
\* no Station record is made for the address, so the address has no Station
\* record at any time and is never associated.
C15_AllowListKeepsOut ==
    \A x \in Macs :
        ( /\ ap.life = "running" /\ ~ap.crashed
          /\ ap.authorized_macs # {}
          /\ x \notin ap.authorized_macs )
            => /\ ~ap.sta_states[x].known
               /\ ~ap.sta_states[x].associated
               /\ \A open_seq1 \in BOOLEAN :
                      LET r == ap_auth_cb(ApBegin(ap, "auth"), x, open_seq1)
                      IN  /\ r.resp.status = "UNSPECIFIED"
                          /\ r.sta_states[x] = ap.sta_states[x]

\* STATION_REMOVED was reported for the station mac by the handler that left
\* the struct as a.
StationRemoved(a, mac) ==
    \E i \in DOMAIN a.events :
        a.events[i] = [ev |-> "STATION_REMOVED", mac |-> mac]

C21_NoSuccessAfterFailure ==
    [][ (hist.failure # {} /\ cur' = cur)
            => /\ \A i \in DOMAIN out' :
                    ~( /\ out'[i].t = "connect_cb"
                       /\ out'[i].f = Ptr("conn", cur)
                       /\ out'[i].v = "OK" )
               /\ nd'.operational => nd.operational ]_vars

\* C22: when the acknowledgement of a Disconnect's DEAUTHENTICATE arrives
\* after a newer Connect was accepted on the interface, the disconnect
\* callback is invoked with the user data given to that Disconnect call, and
\* the callbacks, the user data and the state of the newer connection stay
\* as they were.
C22_LateDeauthAck ==
    [][ ( /\ alive /\ ~crashed
          /\ genl # <<>>
          /\ Head(genl).cb = "netdev_cmd_deauthenticate_cb"
          /\ ~Head(genl).cancelled
          /\ Head(genl).cmd.a < cur
          /\ \E ok \in BOOLEAN : GenlReply(ok) )
            => /\ \E i \in DOMAIN out' :
                    /\ out'[i].t = "disconnect_cb"
                    /\ out'[i].f = Ptr("disc", Head(genl).cmd.a)
                    /\ out'[i].data = Ptr("disc", Head(genl).cmd.a)
               /\ nd'.connect_cb = nd.connect_cb
               /\ nd'.event_filter = nd.event_filter
               /\ nd'.user_data = nd.user_data
               /\ nd'.connected = nd.connected
               /\ nd'.operational = nd.operational
               /\ nd'.handshake = nd.handshake
               /\ nd'.sm = nd.sm ]_vars

\* A step that handles the failure of a sub-step of a Fast BSS Transition in
\* progress: an error answer to the FT Authenticate or Reassociate command,
\* an Authenticate notification other than a valid success, or a CONNECT
\* notification that does not complete the transition.
FtSubStepFails ==
    /\ alive /\ ~crashed
    /\ nd.connected /\ nd.in_ft
    /\ \/ /\ genl # <<>>
          /\ ~Head(genl).cancelled
          /\ Head(genl).cb \in {"netdev_cmd_authenticate_ft_cb",
                                "netdev_cmd_ft_reassociate_cb"}
          /\ GenlReply(FALSE)
       \/ \E msg \in AuthEventMsgs \ {"ok"}, ub \in UB :
              AuthenticateEvent(msg, ub)
       \/ /\ \E msg \in ConnectEventMsgs, ub \in UB : ConnectEvent(msg, ub)
          /\ ~nd'.operational

\* C23: the failure of any sub-step of a Fast BSS Transition sends a
\* DEAUTHENTICATE for the connection, and the connection is either cleared
\* in that step or is cleared by the answer to that DEAUTHENTICATE.
C23_FtFailureDeauthenticates ==
    [][ FtSubStepFails
            => /\ hist'.deauth_sent = hist.deauth_sent + 1
               /\ \/ ~nd'.connected
                  \/ \E i \in DOMAIN genl' :
                        /\ genl'[i].id = nd'.disconnect_cmd_id
                        /\ ~genl'[i].cancelled
                        /\ genl'[i].cmd.c = "DEAUTHENTICATE"
                        /\ genl'[i].cb = "netdev_connect_failed" ]_vars

\* C24: when the CONNECT notification of a Fast BSS Transition in an RSN
\* reports a successful reassociation, the handler installs the PTK itself
\* (pairwise NEW_KEY and SET_KEY are sent, the PTK is marked complete) and
\* completes the transition, and it does not emit the 4WayHandshake event.
C24_FtInstallsPtkDirectly ==
    [][ ( /\ alive /\ ~crashed
          /\ nd.connected /\ nd.in_ft /\ nd.handshake.is_rsn
          /\ \E msg \in ConnectEventMsgs, ub \in UB : ConnectEvent(msg, ub)
          /\ nd'.connected )
            => /\ \A i \in DOMAIN out' :
                    ~(out'[i].t = "event" /\ out'[i].v = "4WAY_HANDSHAKE")
               /\ nd'.handshake.ptk_complete
               /\ nd'.operational /\ ~nd'.in_ft
               /\ \E i \in DOMAIN wire' :
                    /\ i > Len(wire) /\ i < Len(wire')
                    /\ wire'[i] = Cmd("NEW_KEY", "pairwise", cur)
                    /\ wire'[i + 1] = Cmd("SET_KEY", "pairwise", cur) ]_vars

\* A Fast BSS Transition in an RSN has just completed: the step reported
\* success to the callback given to netdev_fast_transition and announced the
\* key installation.
C24_Witness ==
    /\ hist.transitions = 1
    /\ nd.connected /\ nd.operational /\ nd.handshake.is_rsn
    /\ \E i \in DOMAIN out : out[i].t = "event" /\ out[i].v = "SETTING_KEYS"
    /\ \E i \in DOMAIN out : /\ out[i].t = "connect_cb"
                             /\ out[i].f = Ptr("ft", cur)
                             /\ out[i].v = "OK"
    /\ nd.pairwise_new_key_cmd_id # 0

\* The key commands of the 4-Way Handshake have all been issued for the
\* latest connection, SET_STATION last.
KeysInstalled ==
    /\ nd.handshake.ptk_complete
    /\ \E i \in DOMAIN wire : wire[i] = Cmd("NEW_KEY", "pairwise", cur)
    /\ \E i \in DOMAIN wire : wire[i] = Cmd("SET_KEY", "pairwise", cur)
    /\ \E i \in DOMAIN wire : wire[i] = Cmd("NEW_KEY", "group", cur)
    /\ \E i \in DOMAIN wire : wire[i] = Cmd("SET_STATION", "AUTHORIZED", cur)

\* C25: a CONNECT notification that reports a successful association outside
\* a Fast BSS Transition makes an RSN connection emit the 4WayHandshake event
\* and nothing else (no operstate command, no connect callback), and makes a
\* non-RSN connection send the operstate command at once; for an RSN
\* connection the operstate command is sent, the link marked operational and
\* success reported only after the handshake's keys have been installed.
C25_RsnWaitsForHandshake ==
    [][ /\ ( /\ alive /\ ~crashed
             /\ nd.connected /\ ~nd.in_ft
             /\ \E msg \in ConnectEventMsgs, ub \in UB : ConnectEvent(msg, ub)
             /\ nd'.connected )
               => IF nd.handshake.is_rsn
                  THEN /\ \E i \in DOMAIN out' :
                            out'[i].t = "event" /\ out'[i].v = "4WAY_HANDSHAKE"
                       /\ \A i \in DOMAIN out' : out'[i].t # "connect_cb"
                       /\ rtnl' = rtnl
                       /\ nd'.operational = nd.operational
                  ELSE rtnl' = Append(rtnl, [cb |-> "netdev_operstate_cb",
                                             a |-> cur])
        /\ ( /\ alive /\ ~crashed
             /\ nd.connected /\ nd.handshake.is_rsn
             /\ hist.transitions = 0 /\ cur' = cur
             /\ \/ Len(rtnl') > Len(rtnl)
                \/ nd'.operational /\ ~nd.operational
                \/ \E i \in DOMAIN out' : /\ out'[i].t = "connect_cb"
                                          /\ out'[i].v = "OK" )
               => KeysInstalled ]_vars

\* The positions in the nl80211 queue of the DEAUTHENTICATE commands that are
\* outstanding with their callback still attached.
OutstandingDeauth ==
    { i \in DOMAIN genl : /\ genl[i].cmd.c = "DEAUTHENTICATE"
                          /\ ~genl[i].cancelled }

\* C26: while the interface exists, no two DEAUTHENTICATE commands of the
\* same connection are outstanding at once, and the id of every outstanding
\* DEAUTHENTICATE is the one struct netdev holds in disconnect_cmd_id.
C26_OneDeauthOutstanding ==
    (alive /\ ~crashed) =>
        /\ \A i, j \in OutstandingDeauth :
                genl[i].cmd.a = genl[j].cmd.a => i = j
        /\ \A i \in OutstandingDeauth : genl[i].id = nd.disconnect_cmd_id

\* C27: a CONNECT, AUTHENTICATE or rekey-offload notification that arrives
\* while the interface has no connection is ignored: the process survives
\* it, struct netdev and both netlink queues stay as they were, and nothing
\* is reported upward.
C27_IdleNotificationsIgnored ==
    [][ ( /\ alive /\ ~crashed
          /\ ~nd.connected
          /\ \/ \E msg \in ConnectEventMsgs, ub \in UB : ConnectEvent(msg, ub)
             \/ \E msg \in AuthEventMsgs, ub \in UB : AuthenticateEvent(msg, ub)
             \/ \E has_ctr \in BOOLEAN, ub \in UB :
                    RekeyOffloadEvent(has_ctr, ub) )
            => /\ ~crashed'
               /\ nd' = nd
               /\ genl' = genl
               /\ rtnl' = rtnl
               /\ out' = <<>> ]_vars

\* The access point refused the frame the handler was given: it answered
\* with a status other than success.
ApRefused(r) == r.resp.type # "none" /\ r.resp.status # "SUCCESS"

StaCmds(a, x) ==
    Cardinality({ i \in DOMAIN a.nl80211 :
                    /\ a.nl80211[i].c \in {"NEW_STATION", "SET_STATION"}
                    /\ a.nl80211[i].mac = x })

\* The step in which the station x becomes associated, or in which a
\* NEW_STATION or SET_STATION about it is issued.
Associates(x) ==
    \/ ~ap.sta_states[x].associated /\ ap'.sta_states[x].associated
    \/ StaCmds(ap', x) > StaCmds(ap, x)

\* The step that handles the acknowledgement of the Response with status 0
\* that was sent to the authenticated station x.
AckOfResponse(x) ==
    /\ ap.xchg # <<>>
    /\ Head(ap.xchg).mac = x /\ ~Head(ap.xchg).stale
    /\ ap.sta_states[x].known
    /\ ApExchangeDone(TRUE, "benign")

\* When the exchange of the Response to x ends without an acknowledgement,
\* x is not associated afterwards and no command about it is issued.
UnackedNeverAssociates ==
    \A x \in Macs :
        ( /\ ap.life = "running" /\ ~ap.crashed
          /\ ap.xchg # <<>>
          /\ Head(ap.xchg).mac = x /\ ~Head(ap.xchg).stale )
            => LET r == ap_success_assoc_resp_cb(
                            ApBegin(ap, "assoc_resp_done"), x, FALSE)
               IN  /\ ~r.sta_states[x].associated
                   /\ StaCmds(r, x) = StaCmds(ap, x)

\* C29 as stated: a station becomes associated, and NEW_STATION or
\* SET_STATION is issued for it, only in the step that handles the
\* acknowledgement of the Response with status 0 sent to it.
C29_AssociatedOnlyOnAck ==
    [][ /\ \A x \in Macs : Associates(x) => AckOfResponse(x)
        /\ UnackedNeverAssociates ]_vars

\* C29 amended: a station becomes associated, and NEW_STATION or SET_STATION
\* is issued for it, only in the step that handles the acknowledgement of
\* the Response with status 0 sent to it, or in the step in which the kernel
\* reports it with NL80211_CMD_NEW_STATION while the access point has no
\* entry for it; in that step SET_STATION is issued.
C29_AssociatedOnAckOrKernelReport ==
    [][ /\ \A x \in Macs :
              Associates(x) =>
                  \/ AckOfResponse(x)
                  \/ /\ ~ap.sta_states[x].known
                     /\ ApNewStation(x)
                     /\ ap'.nl80211 = Append(ap.nl80211,
                            [id |-> 0, c |-> "SET_STATION", mac |-> x,
                             stale |-> FALSE])
        /\ UnackedNeverAssociates ]_vars

\* The Response to a station was acknowledged: the station is associated,
\* holds the AID of the Response, and NEW_STATION is on its way.
C29_Witness ==
    \E x \in Macs :
        /\ ap.life = "running" /\ ~ap.crashed
        /\ ap.sta_states[x].associated
        /\ ap.sta_states[x].assoc_resp_cmd_id = 0
        /\ ap.sta_states[x].aid = ap.last_aid
        /\ \E i \in DOMAIN ap.nl80211 :
               ap.nl80211[i] = [id |-> 0, c |-> "NEW_STATION", mac |-> x,
                                stale |-> FALSE]

\* C30: an Association Request without WSC IE, from a station that may send
\* it (authenticated, no Response under way, associated if it is a
\* Reassociation Request), is answered with status 0 exactly when its RSNE
\* names one pairwise cipher, that cipher is one the access point offers,
\* the AKM is PSK and neither the MFP-required flag nor the SPP A-MSDU
\* required flag is set.
C30_RsneAccepted ==
    \A req \in AssocRequests :
        ( /\ ApReceiving
          /\ req.ies = "rsn"
          /\ ap.sta_states[req.from].known
          /\ ap.sta_states[req.from].assoc_resp_cmd_id = 0
          /\ req.reassoc => ap.sta_states[req.from].associated )
            => LET r == ap_assoc_req_cb(ApBegin(ap, "assoc_req"), req)
                   acceptable == /\ Cardinality(req.rsn.pairwise) = 1
                                 /\ req.rsn.pairwise \subseteq ApCiphers
                                 /\ req.rsn.akm = {"PSK"}
                                 /\ ~req.rsn.mfpr
                                 /\ ~req.rsn.spp
               IN  /\ r.resp.to = req.from
                   /\ r.resp.status = "SUCCESS" <=> acceptable
                   /\ r.sta_states[req.from].assoc_resp_cmd_id # 0
                          <=> acceptable


EventCount(a, ev, mac) ==
    Cardinality({ i \in DOMAIN a.events :
                    a.events[i] = [ev |-> ev, mac |-> mac] })

\* C32: for each station STATION_ADDED and STATION_REMOVED alternate,
\* STATION_ADDED first.  A step reports STATION_ADDED for a station exactly
\* when it makes it an RSNA station, and STATION_REMOVED, once, exactly when
\* the station stops being one, by whatever path.
C32_AddedRemovedAlternate ==
    [][ap' # ap =>
         \A x \in Macs :
             LET was == ap.sta_states[x].rsna
                 is == ap'.sta_states[x].rsna
                 added == EventCount(ap', "STATION_ADDED", x)
                 removed == EventCount(ap', "STATION_REMOVED", x)
             IN  /\ added = (IF ~was /\ is THEN 1 ELSE 0)
                 /\ removed = (IF was /\ ~is THEN 1 ELSE 0)]_vars


\* The clients whose PBC Probe Request was recorded within the last 120 s.
FreshProbers(a) ==
    { a.wsc_pbc_probes[i].mac :
        i \in { j \in DOMAIN a.wsc_pbc_probes : a.wsc_pbc_probes[j].fresh } }

\* C33: while two or more clients have a probe record of the last 120 s,
\* ap_push_button is refused and the AP does not enter active PBC mode; once
\* the records are older than that, ap_push_button is accepted again.
C33_ButtonRefusedDuringOverlapOnly ==
    (ap.life = "running" /\ ap.started /\ ~ap.crashed)
        => LET r == ap_push_button(ApBegin(ap, "push_button"))
           IN  IF Cardinality(FreshProbers(ap)) >= 2
               THEN ~r.wsc_pbc_timeout
               ELSE r.wsc_pbc_timeout


\* The registration handshake with the Enrollee x runs.
Registering(a, x) ==
    /\ a.sta_states[x].known /\ a.sta_states[x].associated
    /\ ~a.sta_states[x].assoc_rsne /\ a.sta_states[x].hs

\* C34: a PBC Probe Request of another client that makes a session overlap
\* (it is not the only client with a probe record of the last 120 s) while
\* the registration handshake with an Enrollee runs aborts that handshake.
C34_OverlapAbortsRegistration ==
    \A req \in ProbeRequests, hit \in Hits :
        ( /\ ApReceiving /\ ap.started
          /\ req.match /\ req.wsc = "pbc"
          /\ HitFor(Macs \ {req.from}, hit)
          /\ FreshProbers(ap) \ {req.from} # {} )
        => LET r == ap_probe_req_cb(ApBegin(ap, "probe_req"), req,
                                    "benign", hit)
           IN  \A x \in Macs \ {req.from} :
                   Registering(ap, x) => ~Registering(r, x)


\* The probe records that carry the address mac.
RecordsOf(a, mac) ==
    { i \in DOMAIN a.wsc_pbc_probes : a.wsc_pbc_probes[i].mac = mac }

\* C35: when the registration handshake with an Enrollee reports that the
\* credential was sent, every probe record with the Enrollee's address is
\* removed and the records of other clients are kept, so that ap_push_button
\* called next is accepted unless two other clients have a record.
C35_CredentialSentPurgesRecords ==
    \A x \in Macs, hit \in Hits :
        (ApReceiving /\ ap.started /\ Registering(ap, x) /\ HitFor({x}, hit))
        => LET r == ap_handshake_event(ApBegin(ap, "handshake_event"),
                                       x, TRUE, hit)
               others == SelectSeq(ap.wsc_pbc_probes, LAMBDA p : p.mac # x)
               b == ap_push_button(ApBegin(r, "push_button"))
           IN  /\ RecordsOf(r, x) = {}
               /\ r.wsc_pbc_probes = others
               /\ EventCount(r, "REGISTRATION_SUCCESS", x) = 1
               /\ Len(others) <= 1 => b.wsc_pbc_timeout

\* The credential was sent to an Enrollee: its probe record is gone, the
\* record of another client is still there, and the button can be pushed.
C35_Witness ==
    \E x \in Macs :
        /\ ap.life = "running" /\ ~ap.crashed
        /\ EventCount(ap, "REGISTRATION_SUCCESS", x) = 1
        /\ RecordsOf(ap, x) = {}
        /\ Len(ap.wsc_pbc_probes) = 1
        /\ ap_push_button(ApBegin(ap, "push_button")).wsc_pbc_timeout


\* The access point without the probe records that are older than 120 s.
FreshOnly(a) ==
    [a EXCEPT !.wsc_pbc_probes = SelectSeq(@, LAMBDA p : p.fresh)]

\* A record older than 120 s does not make a PBC Probe Request a session
\* overlap: the request leaves the timer and the records of the last 120 s
\* as it would have without such records.
StaleNeverOverlaps ==
    \A req \in ProbeRequests, hit \in Hits :
        HitFor(Macs \ {req.from}, hit)
        => LET r == ap_probe_req_cb(ApBegin(ap, "probe_req"), req,
                                    "benign", hit)
               f == ap_probe_req_cb(ApBegin(FreshOnly(ap), "probe_req"), req,
                                    "benign", hit)
           IN  /\ r.wsc_pbc_timeout = f.wsc_pbc_timeout
               /\ FreshOnly(r).wsc_pbc_probes = f.wsc_pbc_probes
               /\ EventCount(r, "PBC_MODE_EXIT", 0)
                      = EventCount(f, "PBC_MODE_EXIT", 0)

\* A record older than 120 s does not make ap_push_button refuse.
StaleNeverRefusesButton ==
    ap_push_button(ApBegin(FreshOnly(ap), "push_button")).wsc_pbc_timeout
        => ap_push_button(ApBegin(ap, "push_button")).wsc_pbc_timeout

\* A record older than 120 s does not make a WSC association be refused.
StaleNeverRefusesEnrollee ==
    \A req \in AssocRequests :
        ( /\ req.ies = "wsc"
          /\ ap_assoc_status(FreshOnly(ap), req) = "SUCCESS" )
        => ap_assoc_status(ap, req) = "SUCCESS"

\* C36: a probe record stops counting 120 s after it was made: a record
\* older than that never makes a session overlap, never makes ap_push_button
\* refuse and never makes a WSC association be refused.
C36_StaleRecordsDoNotCount ==
    (ApReceiving /\ ap.started)
        => /\ StaleNeverOverlaps
           /\ StaleNeverRefusesButton
           /\ StaleNeverRefusesEnrollee


\* C37: while the AP is in active PBC mode (the walk-time timer runs) the
\* list of probe records holds one record at most.
C37_OneRecordInPbcMode ==
    (ap.life = "running" /\ ~ap.crashed /\ ap.wsc_pbc_timeout)
        => Len(ap.wsc_pbc_probes) <= 1

\* Active PBC mode with the record of the one client that probed.
C37_Witness ==
    /\ ap.life = "running" /\ ~ap.crashed
    /\ ap.wsc_pbc_timeout /\ ap.wsc_dpid = "PUSH_BUTTON"
    /\ Len(ap.wsc_pbc_probes) = 1


\* C38: once the AP was reset, shut down or freed, the walk-time timer that
\* ap_push_button armed does not fire: ap_wsc_pbc_timeout_cb runs only for
\* an AP that is running.
C38_NoPbcTimeoutAfterStop ==
    [][ap.life # "running"
         => /\ ~ApPbcTimeout
            /\ \A ub \in UB : ~ApPbcTimeoutFreed(ub)]_vars


\* C39: whatever the sequence of ap_shutdown, the STOP_AP reply, the
\* kernel's STOP_AP and ap_free on one AP, the station list, the rate set,
\* the probe records, own_ip and its subnet of the pool are released once
\* and no more.
C39_ResourcesReleasedOnce == ap.released <= 1


\* The number of STARTED and START_FAILED events the handler that left the
\* struct as a delivered to the owner.
StartReports(a) ==
    EventCount(a, "STARTED", 0) + EventCount(a, "START_FAILED", 0)

\* C40: every AP that ap_start returned has one of STARTED and START_FAILED
\* delivered, sooner or later, unless its owner calls ap_shutdown or ap_free
\* first; and the two are never both delivered: a step delivers one of them
\* at most, and only for an AP that runs and has not started.
C40_StartReportedOnce ==
    /\ <>(StartReports(ap) = 1 \/ ap.owner_done)
    /\ [][ap' # ap =>
            /\ StartReports(ap') <= 1
            /\ StartReports(ap') = 1
                   => (ap.life = "running" /\ ~ap.started)]_vars

====
